---- MODULE Spec2Model ----
(***************************************************************************)
(* Model of the interview coach: the question/feedback client              *)
(* (interviewService: callGeminiAPI, generateQuestions, getAIFeedback) and *)
(* the conversation controller (InterviewRoom).                            *)
(*                                                                         *)
(* Texts are modelled by the features the code reads from them:            *)
(*   spaces    number of ' ' characters (split(' ').length = spaces + 1)   *)
(*   example / instance / situation    the substring is present            *)
(*   percent / years / projects        /\d+%/, /\d+ years/, /\d+ projects/ *)
(*   blank     trim() of the text is empty                                 *)
(***************************************************************************)
EXTENDS Integers, Sequences, FiniteSets, TLC

\* ------------------------------------------------------------------ bounds
MaxRemoteLen == 2        \* longest question array the remote service returns
MaxRemoteVariants == 2   \* distinct remote question sets
ThresholdRadius == 2     \* answers lie within this many words of a threshold
MaxTurns == 3            \* answers submitted in one run of the controller
MaxRestarts == 2         \* restarts in one run of the controller
\* calls of speak() on the speech output adapter
MaxSpeaks == 2
\* SpeechRecognition instances created in one run of the voice input
MaxRecognitions == 2

\* -------------------------------------------------------- program constants
maxAttemptsQuestions == 3
maxAttemptsFeedback == 2
PositiveWordThreshold == 30
BriefWordThreshold == 20
ThoroughWordThreshold == 100

Undefined == "undefined"

\* ------------------------------------------------------------------ profile
Fields == {"Software Engineering", "Marketing", "Data Science", "Medical - Cardiology"}
ExperienceLevels ==
  {"Beginner (0-1 years)", "Intermediate (2-5 years)", "Advanced (5+ years)", "Senior/Leadership"}
Profiles == [name : {"Dana"}, field : Fields, role : {"Backend Engineer"},
             experienceLevel : ExperienceLevels]

\* String.prototype.includes on the experience levels the form offers
includes(level, word) ==
  CASE level = "Beginner (0-1 years)" -> word \in {"Beginner", "years"}
    [] level = "Intermediate (2-5 years)" -> word \in {"Intermediate", "years"}
    [] level = "Advanced (5+ years)" -> word \in {"Advanced", "years"}
    [] level = "Senior/Leadership" -> word \in {"Senior", "Leadership"}
    [] OTHER -> FALSE

\* ----------------------------------------------------------------- texts
\* Every string of the program (answer, question, spoken text) is a record:
\* tag and n identify the string, the other fields are what the code reads.
Txt(tag, n, spaces, words) ==
  [tag |-> tag, n |-> n, spaces |-> spaces,
   example |-> "example" \in words, instance |-> "instance" \in words,
   situation |-> "situation" \in words, percent |-> "percent" \in words,
   years |-> "years" \in words, projects |-> "projects" \in words, blank |-> FALSE]
\* the empty string ''
EmptyText == [Txt("", 0, 0, {}) EXCEPT !.blank = TRUE]

\* number of ' ' in the profile strings of the model
spacesIn(s) ==
  CASE s = "Dana" -> 0
    [] s = "Marketing" -> 0
    [] s \in {"Backend Engineer", "Software Engineering", "Data Science"} -> 1
    [] s = "Medical - Cardiology" -> 2
    [] OTHER -> 0

\* --------------------------------------------------------- fallback questions
Q(i, text, c, t) == [id |-> i, question |-> text, category |-> c, topic |-> t]

introQuestions(profile) ==
  << Q(1, Txt("intro", 1, 11 + spacesIn(profile.name), {}), "Introduction", "Getting to know you"),
     Q(2, Txt("intro", 2, 7 + spacesIn(profile.role), {}), "Introduction", "Motivation"),
     Q(3, Txt("intro", 3, 10 + spacesIn(profile.field), {}), "Introduction", "Career Path") >>

softwareQuestions(profile) ==
  << Q(4, Txt("software", 4, 20 + spacesIn(profile.role), {}), "Experience", "Project Experience"),
     Q(5, Txt("software", 5, 13, {}), "Professional Development", "Continuous Learning"),
     Q(6, Txt("software", 6, 15, {"situation"}), "Teamwork", "Conflict Resolution"),
     Q(7, Txt("software", 7, 8, {}), "Technical Skills", "Debugging"),
     Q(8, Txt("software", 8, 11, {}), "Technical Skills", "Tech Stack"),
     Q(9, Txt("software", 9, 10, {"years"}), "Career Goals", "Future Plans"),
     Q(10, Txt("software", 10, 20, {}), "Problem Solving", "Time Management") >>

marketingQuestions(profile) ==
  << Q(4, Txt("marketing", 4, 13 + spacesIn(profile.role), {}), "Experience", "Campaign Success"),
     Q(5, Txt("marketing", 5, 9, {}), "Analytics", "Metrics and KPIs"),
     Q(6, Txt("marketing", 6, 15, {}), "Problem Solving", "Learning from Failure"),
     Q(7, Txt("marketing", 7, 10, {}), "Professional Development", "Industry Trends"),
     Q(8, Txt("marketing", 8, 11, {}), "Strategy", "Audience Research"),
     Q(9, Txt("marketing", 9, 9, {}), "Technical Skills", "Marketing Tools"),
     Q(10, Txt("marketing", 10, 14, {}), "Teamwork", "Cross-functional Collaboration") >>

genericQuestions(profile) ==
  << Q(4, Txt("generic", 4, 13 + spacesIn(profile.role), {}), "Experience", "Relevant Experience"),
     Q(5, Txt("generic", 5, 14, {}), "Self-Assessment", "Strengths"),
     Q(6, Txt("generic", 6, 10, {"situation"}), "Problem Solving", "Challenge Resolution"),
     Q(7, Txt("generic", 7, 10, {}), "Time Management", "Prioritization"),
     Q(8, Txt("generic", 8, 12, {}), "Technical Skills", "Tools and Methodologies"),
     Q(9, Txt("generic", 9, 13, {}), "Adaptability", "Handling Change"),
     Q(10, Txt("generic", 10, 9, {}), "Motivation", "Company Fit") >>

beginnerQuestions(profile) ==
  << Q(11, Txt("beginner", 11, 9, {}), "Growth", "Skill Development") >>

seniorQuestions(profile) ==
  << Q(11, Txt("senior", 11, 7, {}), "Leadership", "Mentorship"),
     Q(12, Txt("senior", 12, 15, {}), "Leadership", "Decision Making") >>

fieldQuestions(profile) ==
  IF profile.field = "Software Engineering" THEN softwareQuestions(profile)
  ELSE IF profile.field = "Marketing" THEN marketingQuestions(profile)
  ELSE genericQuestions(profile)

experienceMutantQuestions(profile) ==
  IF includes(profile.experienceLevel, "Senior") THEN seniorQuestions(profile)
  ELSE beginnerQuestions(profile)

experienceQuestions(profile) ==
  IF includes(profile.experienceLevel, "Beginner") THEN beginnerQuestions(profile)
  ELSE IF includes(profile.experienceLevel, "Senior") THEN seniorQuestions(profile)
  ELSE << >>

fallbackMutantQuestions(profile) ==
  IF profile.field \in {"Software Engineering", "Marketing"}
    THEN fieldQuestions(profile) \o experienceQuestions(profile)
    ELSE experienceQuestions(profile)

fallbackQuestions(profile) ==
  introQuestions(profile) \o fieldQuestions(profile) \o experienceQuestions(profile)

\* ------------------------------------------------------- remote question sets
remoteQuestions(n, v) ==
  [i \in 1..n |-> Q(i, Txt(IF v = 1 THEN "remote" ELSE "remote again", i, 11 + i, {}),
                    "Behavioral", "Teamwork")]

\* what one callGeminiAPI round trip can produce
\* "timeout": the AbortError of the 15 s timer; "error": any other throw
\* (fetch rejects, response not ok, no text in the candidates)
ApiErrors == {"error", "timeout"}
ApiOutcome == [kind : ApiErrors \cup {"text"}, match : BOOLEAN, parses : BOOLEAN]
apiFailed(o) == o.kind \in ApiErrors
\* responseText.match(/\[[\s\S]*\]/) resp. /\{[\s\S]*\}/ followed by JSON.parse
extractJson(o) == IF ~o.match THEN "noMatch" ELSE IF ~o.parses THEN "parseError" ELSE "ok"
attemptFails(o) == apiFailed(o) \/ extractJson(o) # "ok"
attemptError(o) == IF apiFailed(o) THEN o.kind ELSE extractJson(o)

FailingOutcomes ==
  {o \in ApiOutcome : /\ attemptFails(o)
                      /\ (apiFailed(o) => ~o.match /\ ~o.parses)
                      /\ (~o.match => ~o.parses)}

\* ------------------------------------------------------------------- answers
WordCounts ==
  {1, 10} \cup
  {w \in 1..(ThoroughWordThreshold + ThresholdRadius) :
     \E t \in {BriefWordThreshold, PositiveWordThreshold, ThoroughWordThreshold} :
        w - t \in (0 - ThresholdRadius)..ThresholdRadius}
Answer == [tag : {"answer"}, n : {0}, spaces : {w - 1 : w \in WordCounts},
           example : BOOLEAN, instance : BOOLEAN, situation : BOOLEAN,
           percent : BOOLEAN, years : BOOLEAN, projects : BOOLEAN, blank : BOOLEAN]
\* the texts a user can produce: a blank text carries no word
Answers ==
  {r \in Answer : r.blank => ~(r.example \/ r.instance \/ r.situation
                                \/ r.percent \/ r.years \/ r.projects)}

\* response.split(' ').length
wordCount(response) == response.spaces + 1
hasSpecificExamples(response) ==
  response.example \/ response.instance \/ response.situation
usesConcreteFigures(response) ==
  response.percent \/ response.years \/ response.projects

\* wordCount < 20: the short-response delivery message applies
briefMutant(response) == wordCount(response) <= BriefWordThreshold
brief(response) == wordCount(response) < BriefWordThreshold

positiveMutant(response) ==
  wordCount(response) >= PositiveWordThreshold
    /\ (hasSpecificExamples(response) \/ usesConcreteFigures(response))

positive(response) ==
  wordCount(response) > PositiveWordThreshold
    /\ (hasSpecificExamples(response) \/ usesConcreteFigures(response))

\* ------------------------------------------------------------------ feedback
fallbackFeedbackMutant(response) ==
  IF positive(response)
    THEN [positive |-> TRUE,
          contentFeedback |-> "detailed and relevant",
          deliveryFeedback |-> "well-structured and concise",
          improvementTips |-> IF wordCount(response) > ThoroughWordThreshold
                                THEN "be a bit more concise" ELSE Undefined,
          followUpQuestion |-> "technologies you used in that project"]
    ELSE [positive |-> FALSE,
          contentFeedback |-> "more specific examples and details",
          deliveryFeedback |-> IF brief(response)
                                 THEN "quite brief" ELSE "clear beginning, middle, and conclusion",
          improvementTips |-> "STAR method",
          followUpQuestion |-> Undefined]
fallbackFeedback(response) ==
  IF positive(response)
    THEN [positive |-> TRUE,
          contentFeedback |-> "detailed and relevant",
          deliveryFeedback |-> "well-structured and concise",
          improvementTips |-> IF wordCount(response) > ThoroughWordThreshold
                                THEN "be a bit more concise" ELSE Undefined,
          followUpQuestion |-> "technologies you used in that project"]
    ELSE [positive |-> FALSE,
          contentFeedback |-> "more specific examples and details",
          deliveryFeedback |-> IF brief(response)
                                 THEN "quite brief" ELSE "clear beginning, middle, and conclusion",
          improvementTips |-> "STAR method",
          followUpQuestion |-> "example of a similar challenge"]

\* objects the remote service can answer with; every field is optional in the JSON
RemoteFeedbacks ==
  [positive : BOOLEAN, contentFeedback : {"remote content"},
   deliveryFeedback : {"remote delivery"}, improvementTips : {"remote tips"},
   followUpQuestion : {Undefined, "remote follow-up"}]

\* null (no feedback yet)
NoFeedback == [positive |-> FALSE, contentFeedback |-> "null", deliveryFeedback |-> "null",
               improvementTips |-> "null", followUpQuestion |-> "null"]

\* --------------------------------------------------------------- speech texts
UndefinedText == Txt("undefined", 0, 0, {})
followUpText(s) ==
  CASE s = "technologies you used in that project" -> Txt("follow-up", 1, 12, {})
    [] s = "example of a similar challenge" -> Txt("follow-up", 2, 13, {"example"})
    [] OTHER -> Txt("follow-up", 3, 9, {})
\* `${contentFeedback} ${deliveryFeedback} ${improvementTips || ''}`
feedbackSpeech(f) ==
  Txt("feedback",
      (IF f.positive THEN 1 ELSE 0) + (IF f.contentFeedback = "remote content" THEN 2 ELSE 0)
        + (IF f.deliveryFeedback = "quite brief" THEN 4 ELSE 0)
        + (IF f.improvementTips = Undefined THEN 8 ELSE 0), 20, {})
finalFeedbackSpeech(f) == [feedbackSpeech(f) EXCEPT !.tag = "overall feedback"]
greetingText(profile, n) == Txt("greeting", n, 24 + spacesIn(profile.name) + spacesIn(profile.role), {})
\* `Complete interview assessment for ${questions.length} questions`
assessmentText(n) == Txt("assessment", n, 5, {})
closingText(profile) == Txt("closing", 0, 17 + spacesIn(profile.name), {})

\* ------------------------------------------------------------------- state
VARIABLES
  userProfile,
  \* generateQuestions: the call in flight
  gqPc, gqAttempts, gqLastError, gqCalls, gqResult, gqFrom, gqCaller,
  \* getAIFeedback: the call in flight
  fbPc, fbAttempts, fbLastError, fbCalls, fbQuestion, fbResponse, fbResult, fbFrom, fbCaller,
  \* history: the last fallback result an earlier call of getAIFeedback returned
  fbEarlier,
  \* InterviewRoom: React state
  questions, currentQuestionIndex, userResponse, allResponses, finalFeedback,
  currentFeedback, isLoading, isGeneratingQuestions, isGeneratingFinalFeedback,
  interviewComplete, currentSpeechText, conversationState,
  \* isSpeaking() of the speech output adapter
  speaking,
  \* the setInterval of the speech effect with the render it closes over
  poll,
  \* pending setTimeout callbacks of the greeting case, each with its render
  greetingTimers,
  \* the render handleSubmitResponse closes over while it awaits
  submitClosure,
  \* history: question sets loaded, answers submitted, and feedbacks of this
  \* interview left by a click on Next
  loads, turns, cycles,
  \* history: the answer submitted at each index, and the aggregate feedback
  \* calls, of this interview
  submitted, finalCalls,
  \* textToSpeech: module state
  \* elevenLabsApiKey: a key is stored; synth: window.speechSynthesis exists
  elevenLabsApiKey, synth, isSpeakingState,
  \* currentAudio: 0 is null, otherwise the audio element of that speak() call
  currentAudio,
  \* per speak() call: where the call is, and its audio element
  speakPc, audio,
  \* the utterance queue of the synthesizer, first element being spoken
  synthQueue,
  \* utterances removed by cancel() whose end event may still be delivered
  cancelled,
  \* history: calls of speak() so far, the last one with a text, remote voice
  \* requests per call, the text each call handed to the synthesizer, and
  \* the calls of stop() since the last speak() (counted up to 2)
  speakCount, lastSpeak, requests, handed, stopsInRow,
  \* voice input: the controller's isListening, speechRecognition (0 is null,
  \* otherwise the instance of that number) and speechSupported
  isListening, speechRecognition, speechSupported,
  \* per SpeechRecognition instance: where the browser's recognizer is
  recognition,
  \* calls of handleToggleMicrophone waiting for getUserMedia
  permissionPending,
  \* the description of the last toast the voice input has shown
  toast,
  \* history: instances created so far
  created,
  \* UserProfileForm: its state, and the profile its pending setTimeout closed over
  name, field, medicalSubField, role, experienceLevel, formIsLoading, submitTimer,
  \* Index: the interview room has replaced the form
  interviewStarted,
  \* Avatar: the [isSpeaking, text] its effect last ran for, its lastTextRef,
  \* and (history) the adapter calls the component has made
  avatarDeps, lastTextRef, avatarCalls

gqVars == <<gqPc, gqAttempts, gqLastError, gqCalls, gqResult, gqFrom, gqCaller>>
fbVars == <<fbPc, fbAttempts, fbLastError, fbCalls, fbQuestion, fbResponse, fbResult, fbFrom,
           fbCaller, fbEarlier>>
roomVars == <<questions, currentQuestionIndex, userResponse, allResponses, finalFeedback,
              currentFeedback, isLoading, isGeneratingQuestions, isGeneratingFinalFeedback,
              interviewComplete, currentSpeechText, conversationState,
              speaking, poll, greetingTimers, submitClosure, loads, turns, cycles,
              submitted, finalCalls>>
ttsVars == <<elevenLabsApiKey, synth, isSpeakingState, currentAudio, speakPc, audio,
            synthQueue, cancelled, speakCount, lastSpeak, requests, handed, stopsInRow>>
micVars == <<isListening, speechRecognition, speechSupported, recognition,
            permissionPending, toast, created>>
formVars == <<name, field, medicalSubField, role, experienceLevel, formIsLoading,
             submitTimer, interviewStarted>>
avatarVars == <<avatarDeps, lastTextRef, avatarCalls>>
vars == <<userProfile, formVars, avatarVars, gqVars, fbVars, roomVars, ttsVars, micVars>>

SpeakIds == 1..MaxSpeaks
\* the module after load: let isSpeakingState = false, currentAudio = null
ttsLoaded ==
  /\ isSpeakingState = FALSE /\ currentAudio = 0
  /\ speakPc = [id \in SpeakIds |-> "none"]
  /\ audio = [id \in SpeakIds |-> "none"]
  /\ synthQueue = << >> /\ cancelled = {}
  /\ speakCount = 0 /\ lastSpeak = 0
  /\ requests = [id \in SpeakIds |-> 0]
  /\ handed = [id \in SpeakIds |-> 0]
  /\ stopsInRow = 0
\* the adapter of a browser with a synthesizer and no stored key, not called
ttsUnused == ttsLoaded /\ elevenLabsApiKey = FALSE /\ synth = TRUE

\* useState<UserProfile | null>(null)
NullProfile == [name |-> "null", field |-> "null", role |-> "null", experienceLevel |-> "null"]
NoTimer == [active |-> FALSE, profile |-> NullProfile]
\* the form before anything is entered
formMounted ==
  /\ name = "" /\ field = "" /\ medicalSubField = "" /\ role = "" /\ experienceLevel = ""
  /\ formIsLoading = FALSE /\ submitTimer = NoTimer
  /\ interviewStarted = FALSE
\* the form replaced by the interview room, its state gone
formUnmounted ==
  /\ name = "" /\ field = "" /\ medicalSubField = "" /\ role = "" /\ experienceLevel = ""
  /\ formIsLoading = FALSE /\ submitTimer = NoTimer
  /\ interviewStarted = TRUE

\* the Avatar after its first render: isSpeaking false, no text, refs unset
avatarMounted ==
  /\ avatarDeps = [isSpeaking |-> FALSE, text |-> EmptyText]
  /\ lastTextRef = UndefinedText
  /\ avatarCalls = {}

RecognitionIds == 1..MaxRecognitions
NoToast == "none"
\* the voice input state after the first render and the support check
micMounted ==
  /\ isListening = FALSE /\ speechRecognition = 0
  /\ recognition = [id \in RecognitionIds |-> "none"]
  /\ permissionPending = 0 /\ toast = NoToast
  /\ created = 0
\* voice input of a browser that has SpeechRecognition, never used
micUnused == micMounted /\ speechSupported = TRUE

NoPoll == [active |-> FALSE, conversationState |-> "greeting", currentQuestionIndex |-> 0,
           questions |-> << >>]
NoEarlier == [active |-> FALSE, response |-> EmptyText, result |-> NoFeedback]
NoClosure == [active |-> FALSE, questions |-> << >>]

gqIdle ==
  /\ gqPc = "idle" /\ gqAttempts = 0 /\ gqLastError = "null" /\ gqCalls = 0
  /\ gqResult = << >> /\ gqFrom = "none" /\ gqCaller = "none"
fbIdle ==
  /\ fbPc = "idle" /\ fbAttempts = 0 /\ fbLastError = "null" /\ fbCalls = 0
  /\ fbQuestion = EmptyText /\ fbResponse = EmptyText /\ fbResult = NoFeedback
  /\ fbFrom = "none" /\ fbCaller = "none" /\ fbEarlier = NoEarlier

\* entry of generateQuestions(profile): attempts = 0, lastError = null
gqEnter(caller) ==
  /\ gqPc = "calling" /\ gqAttempts = 0 /\ gqLastError = "null" /\ gqCalls = 0
  /\ gqResult = << >> /\ gqFrom = "none" /\ gqCaller = caller
\* entry of getAIFeedback(question, response, profile)
fbEnter(question, response, caller) ==
  /\ fbPc = "calling" /\ fbAttempts = 0 /\ fbLastError = "null" /\ fbCalls = 0
  /\ fbQuestion = question /\ fbResponse = response /\ fbResult = NoFeedback
  /\ fbFrom = "none" /\ fbCaller = caller /\ fbEarlier = NoEarlier

\* the component after its first render, generateQuestions just called
roomMounted ==
  /\ questions = << >> /\ currentQuestionIndex = 0 /\ userResponse = EmptyText
  /\ allResponses = << >> /\ finalFeedback = NoFeedback /\ currentFeedback = NoFeedback
  /\ isLoading = FALSE /\ isGeneratingQuestions = TRUE /\ isGeneratingFinalFeedback = FALSE
  /\ interviewComplete = FALSE /\ currentSpeechText = EmptyText
  /\ conversationState = "greeting"
  /\ speaking = FALSE /\ poll = NoPoll /\ greetingTimers = {} /\ submitClosure = NoClosure
  /\ loads = 0 /\ turns = 0 /\ cycles = 0
  /\ submitted = {} /\ finalCalls = 0

\* while (attempts < maxAttempts) / if (attempts < maxAttempts) await delay
retryMutant(attempts, maxAttempts) == attempts + 1 < maxAttempts
retry(attempts, maxAttempts) == attempts < maxAttempts

\* ------------------------------------------------- generateQuestions steps
\* an attempt whose response text carries a JSON array: return questions
gqAttemptReturns(n, v) ==
  /\ gqPc = "calling"
  /\ gqCalls' = gqCalls + 1
  /\ gqResult' = remoteQuestions(n, v)
  /\ gqFrom' = "remote"
  /\ gqPc' = "done"
  /\ UNCHANGED <<gqAttempts, gqLastError, gqCaller>>

\* an attempt that throws: catch, count, pause or give up and fall back
gqAttemptFails(o) ==
  /\ gqPc = "calling"
  /\ attemptFails(o)
  /\ gqCalls' = gqCalls + 1
  /\ gqLastError' = attemptError(o)
  /\ gqAttempts' = gqAttempts + 1
  /\ IF retry(gqAttempts', maxAttemptsQuestions)
       THEN /\ gqPc' = "sleeping"
            /\ UNCHANGED <<gqResult, gqFrom>>
       ELSE /\ gqPc' = "done"
            /\ gqResult' = fallbackQuestions(userProfile)
            /\ gqFrom' = "fallback"
  /\ UNCHANGED gqCaller

\* the 1000 ms timer between attempts fires
gqBackoffElapsed ==
  /\ gqPc = "sleeping"
  /\ gqPc' = "calling"
  /\ UNCHANGED <<gqAttempts, gqLastError, gqCalls, gqResult, gqFrom, gqCaller>>

generateQuestions ==
  /\ \/ \E n \in 0..MaxRemoteLen, v \in 1..MaxRemoteVariants : gqAttemptReturns(n, v)
     \/ \E o \in FailingOutcomes : gqAttemptFails(o)
     \/ gqBackoffElapsed
  /\ UNCHANGED <<userProfile, formVars, avatarVars, ttsVars, micVars, fbVars, roomVars>>

\* ----------------------------------------------------- getAIFeedback steps
fbAttemptReturns(f) ==
  /\ fbPc = "calling"
  /\ fbCalls' = fbCalls + 1
  /\ fbResult' = f
  /\ fbFrom' = "remote"
  /\ fbPc' = "done"
  /\ UNCHANGED <<fbAttempts, fbLastError, fbQuestion, fbResponse, fbCaller, fbEarlier>>

fbAttemptMutantFails(o) ==
  /\ fbPc = "calling"
  /\ attemptFails(o)
  /\ fbCalls' = fbCalls + 1
  /\ fbLastError' = attemptError(o)
  /\ fbAttempts' = fbAttempts + 1
  /\ IF retry(fbAttempts', maxAttemptsFeedback)
       THEN /\ fbPc' = "sleeping"
            /\ UNCHANGED <<fbResult, fbFrom>>
       ELSE /\ fbPc' = "done"
            /\ fbResult' = fallbackFeedback([fbResponse EXCEPT
                                               !.spaces = @ + fbQuestion.spaces + 1])
            /\ fbFrom' = "fallback"
  /\ UNCHANGED <<fbQuestion, fbResponse, fbCaller, fbEarlier>>

fbAttemptFails(o) ==
  /\ fbPc = "calling"
  /\ attemptFails(o)
  /\ fbCalls' = fbCalls + 1
  /\ fbLastError' = attemptError(o)
  /\ fbAttempts' = fbAttempts + 1
  /\ IF retry(fbAttempts', maxAttemptsFeedback)
       THEN /\ fbPc' = "sleeping"
            /\ UNCHANGED <<fbResult, fbFrom>>
       ELSE /\ fbPc' = "done"
            /\ fbResult' = fallbackFeedback(fbResponse)
            /\ fbFrom' = "fallback"
  /\ UNCHANGED <<fbQuestion, fbResponse, fbCaller, fbEarlier>>

fbBackoffElapsed ==
  /\ fbPc = "sleeping"
  /\ fbPc' = "calling"
  /\ UNCHANGED <<fbAttempts, fbLastError, fbCalls, fbQuestion, fbResponse, fbResult, fbFrom,
                 fbCaller, fbEarlier>>

getAIFeedback ==
  /\ \/ \E f \in RemoteFeedbacks : fbAttemptReturns(f)
     \/ \E o \in FailingOutcomes : fbAttemptFails(o)
     \/ fbBackoffElapsed
  /\ UNCHANGED <<userProfile, formVars, avatarVars, ttsVars, micVars, gqVars, roomVars>>

\* ------------------------------------------- the client called on its own
InitQuestions ==
  /\ userProfile \in Profiles
  /\ gqEnter("test")
  /\ fbIdle
  /\ roomMounted
  /\ ttsUnused
  /\ micUnused
  /\ formUnmounted
  /\ avatarMounted
NextQuestions == generateQuestions
SpecQuestions == InitQuestions /\ [][NextQuestions]_vars

FeedbackProfiles ==
  {p \in Profiles : p.field \in {"Software Engineering", "Data Science"}
                    /\ includes(p.experienceLevel, "Intermediate")}
InitFeedback ==
  /\ userProfile \in FeedbackProfiles
  /\ gqIdle
  /\ \E response \in Answers : fbEnter(introQuestions(userProfile)[1].question, response, "test")
  /\ roomMounted
  /\ ttsUnused
  /\ micUnused
  /\ formUnmounted
  /\ avatarMounted
NextFeedback == getAIFeedback
SpecFeedback == InitFeedback /\ [][NextFeedback]_vars

\* one call after another with the same answer text: the test of the
\* fallback's determinism; question and profile of the next call are free
getAIFeedbackAgain ==
  /\ fbPc = "done"
  /\ fbEarlier' = IF fbFrom = "fallback"
                    THEN [active |-> TRUE, response |-> fbResponse, result |-> fbResult]
                    ELSE fbEarlier
  /\ \E profile \in FeedbackProfiles, i \in 1..2 :
        /\ userProfile' = profile
        /\ fbPc' = "calling" /\ fbAttempts' = 0 /\ fbLastError' = "null" /\ fbCalls' = 0
        /\ fbQuestion' = introQuestions(profile)[i].question
        /\ fbResult' = NoFeedback /\ fbFrom' = "none"
  /\ UNCHANGED <<fbResponse, fbCaller, formVars, avatarVars, gqVars, roomVars, ttsVars, micVars>>
NextRepeat == getAIFeedback \/ getAIFeedbackAgain
SpecRepeat == InitFeedback /\ [][NextRepeat]_vars

\* ===================================================== textToSpeech
\* hasApiKey(): the key of the module or of localStorage
hasApiKey == elevenLabsApiKey

\* the part of the module state that stop() and isSpeaking() work on
adapter ==
  [isSpeakingState |-> isSpeakingState, currentAudio |-> currentAudio, audio |-> audio,
   synthQueue |-> synthQueue, cancelled |-> cancelled]

\* synth.speaking
synthSpeaking(a) == synth /\ a.synthQueue # << >>
\* isSpeaking(): isSpeakingState || (synth ? synth.speaking : false)
isSpeakingIn(a) == a.isSpeakingState \/ synthSpeaking(a)
isSpeaking == isSpeakingIn(adapter)

\* currentAudio.pause(): a play() still pending is rejected with AbortError
pause(state) ==
  CASE state = "loading" -> "aborted"
    [] state = "playing" -> "paused"
    [] OTHER -> state

\* stop(): pause and forget currentAudio, synth.cancel(), isSpeakingState = false
stoppedMutant(a) ==
  [a EXCEPT !.audio = IF a.currentAudio = 0 THEN @
                      ELSE [@ EXCEPT ![a.currentAudio] = pause(@)],
            !.currentAudio = 0,
            !.synthQueue = IF synth THEN << >> ELSE @,
            !.cancelled = IF synth /\ a.synthQueue # << >>
                            THEN @ \cup {Head(a.synthQueue)} ELSE @,
            !.isSpeakingState = ~@]
stopped(a) ==
  [a EXCEPT !.audio = IF a.currentAudio = 0 THEN @
                      ELSE [@ EXCEPT ![a.currentAudio] = pause(@)],
            !.currentAudio = 0,
            !.synthQueue = IF synth THEN << >> ELSE @,
            !.cancelled = IF synth /\ a.synthQueue # << >>
                            THEN @ \cup {Head(a.synthQueue)} ELSE @,
            !.isSpeakingState = FALSE]

\* speakWithWebSpeechAPI(text) on state a, for the text of call id
speakWithWebSpeechAPI(a, id) ==
  IF ~synth THEN [a EXCEPT !.isSpeakingState = FALSE]
  ELSE [a EXCEPT !.synthQueue = Append(@, id)]

\* a rejected play() whose catch has not run yet: it runs before any event
abortPending == \E id \in SpeakIds : speakPc[id] = "play" /\ audio[id] = "aborted"

setAdapter(a) ==
  /\ isSpeakingState' = a.isSpeakingState
  /\ currentAudio' = a.currentAudio
  /\ audio' = a.audio
  /\ synthQueue' = a.synthQueue
  /\ cancelled' = a.cancelled

\* speak(text) up to its first await
speak(blank) ==
  /\ speakCount < MaxSpeaks
  /\ LET id == speakCount + 1 IN
     /\ speakCount' = id
     /\ IF blank
          THEN /\ speakPc' = [speakPc EXCEPT ![id] = "returned"]
               /\ UNCHANGED <<isSpeakingState, currentAudio, audio, synthQueue, cancelled,
                              lastSpeak, requests, handed, stopsInRow>>
          ELSE /\ lastSpeak' = id
               /\ stopsInRow' = 0
               /\ LET a == [stopped(adapter) EXCEPT !.isSpeakingState = TRUE] IN
                  IF hasApiKey
                    THEN /\ setAdapter(a)
                         /\ speakPc' = [speakPc EXCEPT ![id] = "fetch"]
                         /\ requests' = [requests EXCEPT ![id] = @ + 1]
                         /\ UNCHANGED handed
                    ELSE /\ setAdapter(speakWithWebSpeechAPI(a, id))
                         /\ speakPc' = [speakPc EXCEPT ![id] = "resolved"]
                         /\ handed' = [handed EXCEPT ![id] = IF synth THEN id ELSE @]
                         /\ UNCHANGED requests
  /\ UNCHANGED <<elevenLabsApiKey, synth>>

\* the catch of speakWithElevenLabs and then the catch of speak for call id:
\* isSpeakingState = false, console.error, speakWithWebSpeechAPI(text)
fallBack(id, a) ==
  /\ setAdapter(speakWithWebSpeechAPI([a EXCEPT !.isSpeakingState = FALSE], id))
  /\ speakPc' = [speakPc EXCEPT ![id] = "resolved"]
  /\ handed' = [handed EXCEPT ![id] = IF synth THEN id ELSE @]

\* the voice request of call id settles: with audio, new Audio(..) and play();
\* without (fetch rejects, response not ok, blob() rejects), the fallback
fetchMutantSettles(id, ok) ==
  /\ speakPc[id] = "fetch" /\ ~abortPending
  /\ IF ok
       THEN /\ audio' = [audio EXCEPT ![id] = "loading"]
            /\ currentAudio' = id
            /\ speakPc' = [speakPc EXCEPT ![id] = "play"]
            /\ UNCHANGED <<isSpeakingState, synthQueue, cancelled, handed, requests>>
       ELSE IF requests[id] < 2
         THEN /\ requests' = [requests EXCEPT ![id] = @ + 1]
              /\ UNCHANGED <<isSpeakingState, currentAudio, audio, synthQueue, cancelled,
                             handed, speakPc>>
         ELSE fallBack(id, adapter) /\ UNCHANGED requests
  /\ UNCHANGED <<elevenLabsApiKey, synth, speakCount, lastSpeak, stopsInRow>>
fetchSettles(id, ok) ==
  /\ speakPc[id] = "fetch" /\ ~abortPending
  /\ IF ok
       THEN /\ audio' = [audio EXCEPT ![id] = "loading"]
            /\ currentAudio' = id
            /\ speakPc' = [speakPc EXCEPT ![id] = "play"]
            /\ UNCHANGED <<isSpeakingState, synthQueue, cancelled, handed>>
       ELSE fallBack(id, adapter)
  /\ UNCHANGED <<elevenLabsApiKey, synth, speakCount, lastSpeak, requests, stopsInRow>>

\* audio.play() of call id settles while the element is still loading
playSettles(id, ok) ==
  /\ speakPc[id] = "play" /\ audio[id] = "loading" /\ ~abortPending
  /\ IF ok
       THEN /\ audio' = [audio EXCEPT ![id] = "playing"]
            /\ speakPc' = [speakPc EXCEPT ![id] = "resolved"]
            /\ UNCHANGED <<isSpeakingState, currentAudio, synthQueue, cancelled, handed>>
       ELSE fallBack(id, [adapter EXCEPT !.audio[id] = "failed"])
  /\ UNCHANGED <<elevenLabsApiKey, synth, speakCount, lastSpeak, requests, stopsInRow>>

\* the rejection of a play() that pause() interrupted reaches the catch
playAborted(id) ==
  /\ speakPc[id] = "play" /\ audio[id] = "aborted"
  /\ fallBack(id, adapter)
  /\ UNCHANGED <<elevenLabsApiKey, synth, speakCount, lastSpeak, requests, stopsInRow>>

\* audio.onended of call id's element
onended(id) ==
  /\ audio[id] = "playing" /\ ~abortPending
  /\ audio' = [audio EXCEPT ![id] = "ended"]
  /\ isSpeakingState' = FALSE
  /\ currentAudio' = 0
  /\ UNCHANGED <<elevenLabsApiKey, synth, speakPc, synthQueue, cancelled, speakCount,
                 lastSpeak, requests, handed, stopsInRow>>

\* utterance.onend of the utterance being spoken; the next one starts
onend ==
  /\ synthQueue # << >> /\ ~abortPending
  /\ synthQueue' = Tail(synthQueue)
  /\ isSpeakingState' = FALSE
  /\ UNCHANGED <<elevenLabsApiKey, synth, currentAudio, speakPc, audio, cancelled,
                 speakCount, lastSpeak, requests, handed, stopsInRow>>
  /\ UNCHANGED <<userProfile, formVars, avatarVars, gqVars, fbVars, roomVars, micVars>>

\* utterance.onend of an utterance that cancel() interrupted, in the browsers
\* that report the interruption as an end event
onendCancelled(id) ==
  /\ id \in cancelled /\ ~abortPending
  /\ cancelled' = cancelled \ {id}
  /\ isSpeakingState' = FALSE
  /\ UNCHANGED <<elevenLabsApiKey, synth, currentAudio, speakPc, audio, synthQueue,
                 speakCount, lastSpeak, requests, handed, stopsInRow>>

\* stop() called by the user of the adapter
stop ==
  /\ setAdapter(stopped(adapter))
  /\ stopsInRow' = IF stopsInRow < 2 THEN stopsInRow + 1 ELSE 2
  /\ UNCHANGED <<elevenLabsApiKey, synth, speakPc, speakCount, lastSpeak, requests, handed>>
  /\ UNCHANGED <<userProfile, formVars, avatarVars, gqVars, fbVars, roomVars, micVars>>

speakCalled ==
  /\ \E blank \in BOOLEAN : speak(blank)
  /\ UNCHANGED <<userProfile, formVars, avatarVars, gqVars, fbVars, roomVars, micVars>>
fetchSettled ==
  /\ \E id \in SpeakIds, ok \in BOOLEAN : fetchSettles(id, ok)
  /\ UNCHANGED <<userProfile, formVars, avatarVars, gqVars, fbVars, roomVars, micVars>>
playSettled ==
  /\ \E id \in SpeakIds, ok \in BOOLEAN : playSettles(id, ok)
  /\ UNCHANGED <<userProfile, formVars, avatarVars, gqVars, fbVars, roomVars, micVars>>
playInterrupted ==
  /\ \E id \in SpeakIds : playAborted(id)
  /\ UNCHANGED <<userProfile, formVars, avatarVars, gqVars, fbVars, roomVars, micVars>>
audioEnded ==
  /\ \E id \in SpeakIds : onended(id)
  /\ UNCHANGED <<userProfile, formVars, avatarVars, gqVars, fbVars, roomVars, micVars>>
cancelledEnded ==
  /\ \E id \in SpeakIds : onendCancelled(id)
  /\ UNCHANGED <<userProfile, formVars, avatarVars, gqVars, fbVars, roomVars, micVars>>

\* ===================================================== InterviewRoom
gqCall(caller) ==
  /\ gqPc' = "calling" /\ gqAttempts' = 0 /\ gqLastError' = "null" /\ gqCalls' = 0
  /\ gqResult' = << >> /\ gqFrom' = "none" /\ gqCaller' = caller
gqReturned ==
  /\ gqPc' = "idle" /\ gqAttempts' = 0 /\ gqLastError' = "null" /\ gqCalls' = 0
  /\ gqResult' = << >> /\ gqFrom' = "none" /\ gqCaller' = "none"
fbCall(question, response, caller) ==
  /\ fbPc' = "calling" /\ fbAttempts' = 0 /\ fbLastError' = "null" /\ fbCalls' = 0
  /\ fbQuestion' = question /\ fbResponse' = response /\ fbResult' = NoFeedback
  /\ fbFrom' = "none" /\ fbCaller' = caller
  /\ UNCHANGED fbEarlier
fbReturned ==
  /\ fbPc' = "idle" /\ fbAttempts' = 0 /\ fbLastError' = "null" /\ fbCalls' = 0
  /\ fbQuestion' = EmptyText /\ fbResponse' = EmptyText /\ fbResult' = NoFeedback
  /\ fbFrom' = "none" /\ fbCaller' = "none"
  /\ UNCHANGED fbEarlier

\* new Array(n).fill('')
emptyResponses(n) == [i \in 1..n |-> EmptyText]

\* newResponses[index] = value on a copy (a JavaScript array grows, leaving holes)
storeResponse(responses, index, value) ==
  [i \in 1..(IF index + 1 > Len(responses) THEN index + 1 ELSE Len(responses)) |->
     IF i = index + 1 THEN value
     ELSE IF i <= Len(responses) THEN responses[i] ELSE UndefinedText]

\* questions.map(...Q: question \n A: response).join('\n\n')
RECURSIVE summarySpaces(_, _, _)
summarySpaces(qs, rs, i) ==
  IF i > Len(qs) THEN 0
  ELSE 2 + qs[i].question.spaces
         + (IF i <= Len(rs) THEN rs[i].spaces ELSE 0)
         + summarySpaces(qs, rs, i + 1)
summaryWords(qs, rs) ==
  {w \in {"example", "instance", "situation", "percent", "years", "projects"} :
     \E i \in 1..Len(qs) :
        \/ qs[i].question[w]
        \/ i <= Len(rs) /\ rs[i][w]}
interviewSummary(qs, rs) ==
  IF Len(qs) = 0 THEN [EmptyText EXCEPT !.tag = "summary"]
  ELSE Txt("summary", Len(qs), summarySpaces(qs, rs, 1), summaryWords(qs, rs))

\* what the render shows
completeShown == ~isGeneratingQuestions /\ interviewComplete
finalPanelShown ==
  /\ ~isGeneratingQuestions /\ ~interviewComplete
  /\ conversationState = "finalFeedback"
  /\ ~isGeneratingFinalFeedback /\ finalFeedback # NoFeedback
feedbackPanelShown ==
  /\ ~isGeneratingQuestions /\ ~interviewComplete
  /\ conversationState = "feedback" /\ currentFeedback # NoFeedback
answerCardShown ==
  /\ ~isGeneratingQuestions /\ ~interviewComplete
  /\ conversationState # "finalFeedback"
  /\ ~(conversationState = "feedback" /\ currentFeedback # NoFeedback)
textareaEnabled == answerCardShown /\ conversationState = "asking"
\* Submit Answer: disabled={isLoading || !userResponse.trim() || conversationState
\* !== 'asking'}, and the handler returns at once when !userResponse.trim()
submitEnabledMutant ==
  answerCardShown /\ ~isLoading /\ conversationState = "asking"
submitEnabled ==
  answerCardShown /\ ~isLoading /\ ~userResponse.blank /\ conversationState = "asking"

\* Avatar mood (finalFeedback?.positive of null is undefined, hence neutral)
mood ==
  IF conversationState = "finalFeedback"
    THEN IF finalFeedback # NoFeedback /\ finalFeedback.positive THEN "positive" ELSE "neutral"
    ELSE "neutral"

\* QuestionPanel: "Question {questionNumber} of {totalQuestions}"
questionNumber == currentQuestionIndex + 1
totalQuestions == Len(questions)

\* the effect on [currentSpeechText], run by the render that follows the step:
\* cleanup of the previous interval, stop(), speak(text), a new interval
speechEffect(text, stopCalled) ==
  /\ currentSpeechText' = text
  /\ IF text = currentSpeechText
       THEN /\ speaking' = (speaking /\ ~stopCalled)
            /\ UNCHANGED poll
       ELSE IF text.blank
         THEN /\ speaking' = FALSE
              /\ poll' = NoPoll
         ELSE /\ speaking' = TRUE
              /\ poll' = [active |-> TRUE, conversationState |-> conversationState',
                          currentQuestionIndex |-> currentQuestionIndex',
                          questions |-> questions']

\* initInterview after await generateQuestions(userProfile)
initInterview ==
  /\ gqPc = "done" /\ gqCaller = "init"
  /\ questions' = gqResult
  /\ allResponses' = emptyResponses(Len(gqResult))
  /\ isGeneratingQuestions' = FALSE
  /\ conversationState' = "greeting"
  /\ UNCHANGED currentQuestionIndex
  /\ speechEffect(greetingText(userProfile, Len(gqResult)), FALSE)
  /\ gqReturned
  /\ loads' = loads + 1
  /\ UNCHANGED <<userProfile, formVars, avatarVars, ttsVars, micVars, fbVars, userResponse, finalFeedback, currentFeedback, isLoading,
                 isGeneratingFinalFeedback, interviewComplete, greetingTimers,
                 submitClosure, turns, cycles,
                 submitted, finalCalls>>

\* the playback ends (audio ended / utterance end)
speechEnds ==
  /\ speaking
  /\ speaking' = FALSE
  /\ UNCHANGED <<userProfile, formVars, avatarVars, ttsVars, micVars, gqVars, fbVars, questions, currentQuestionIndex, userResponse,
                 allResponses, finalFeedback, currentFeedback, isLoading,
                 isGeneratingQuestions, isGeneratingFinalFeedback, interviewComplete,
                 currentSpeechText, conversationState, poll, greetingTimers,
                 submitClosure, loads, turns, cycles,
                 submitted, finalCalls>>

\* a tick of checkSpeechComplete that finds isSpeaking() false:
\* clearInterval, setCurrentSpeechText(''), handleSpeechComplete() of poll's render
handleSpeechComplete ==
  /\ poll.active /\ ~speaking
  /\ LET cs == poll.conversationState IN
     /\ greetingTimers' = IF cs = "greeting"
                            THEN greetingTimers \cup {[active |-> TRUE, questions |-> poll.questions]}
                            ELSE greetingTimers
     /\ currentQuestionIndex' = IF cs = "transition" THEN poll.currentQuestionIndex + 1
                                ELSE currentQuestionIndex
     /\ conversationState' = CASE cs = "transition" -> "asking"
                               [] cs = "finalFeedback" -> "complete"
                               [] OTHER -> conversationState
     /\ interviewComplete' = IF cs = "complete" THEN TRUE ELSE interviewComplete
     /\ UNCHANGED questions
     /\ LET text == IF cs = "finalFeedback" THEN closingText(userProfile) ELSE EmptyText IN
        IF text = currentSpeechText
          THEN /\ poll' = NoPoll
               /\ UNCHANGED <<currentSpeechText, speaking>>
          ELSE speechEffect(text, FALSE)
  /\ UNCHANGED <<userProfile, formVars, avatarVars, ttsVars, micVars, gqVars, fbVars, userResponse, allResponses, finalFeedback,
                 currentFeedback, isLoading, isGeneratingQuestions,
                 isGeneratingFinalFeedback, submitClosure, loads, turns, cycles,
                 submitted, finalCalls>>

\* the callback of the greeting case's setTimeout(..., 1000)
greetingTimeout(timer) ==
  /\ timer \in greetingTimers
  /\ greetingTimers' = greetingTimers \ {timer}
  /\ conversationState' = "asking"
  /\ UNCHANGED <<questions, currentQuestionIndex>>
  /\ IF Len(timer.questions) > 0
       THEN speechEffect(timer.questions[1].question, FALSE)
       ELSE UNCHANGED <<currentSpeechText, speaking, poll>>
  /\ UNCHANGED <<userProfile, formVars, avatarVars, ttsVars, micVars, gqVars, fbVars, userResponse, allResponses, finalFeedback,
                 currentFeedback, isLoading, isGeneratingQuestions,
                 isGeneratingFinalFeedback, interviewComplete, submitClosure,
                 loads, turns, cycles,
                 submitted, finalCalls>>

greetingTimerFires == \E timer \in greetingTimers : greetingTimeout(timer)

\* Textarea onChange
ControllerAnswers ==
  { EmptyText, Txt("answer", 0, 9, {}), Txt("answer", 0, 30, {"example"}),
    [Txt("answer", 0, 2, {}) EXCEPT !.blank = TRUE] }
setUserResponse(text) ==
  /\ textareaEnabled
  /\ text # userResponse
  /\ userResponse' = text
  /\ UNCHANGED <<userProfile, formVars, avatarVars, ttsVars, micVars, gqVars, fbVars, questions, currentQuestionIndex, allResponses,
                 finalFeedback, currentFeedback, isLoading, isGeneratingQuestions,
                 isGeneratingFinalFeedback, interviewComplete, currentSpeechText,
                 conversationState, speaking, poll, greetingTimers, submitClosure,
                 loads, turns, cycles,
                 submitted, finalCalls>>

\* a falsy followUpQuestion (undefined, missing) appends nothing
truthy(str) == str \notin {Undefined, "null", ""}

followUpQuestion(feedback, closureQuestions) ==
  [id |-> Len(closureQuestions) + 1, question |-> followUpText(feedback.followUpQuestion),
   category |-> "Follow-up", topic |-> Undefined]

\* [...prevQuestions, newQuestion]
appendMutantQuestion(prevQuestions, newQuestion) == <<newQuestion>> \o prevQuestions
appendQuestion(prevQuestions, newQuestion) == Append(prevQuestions, newQuestion)

\* [...prevResponses, '']
appendSlotMutant(prevResponses) == prevResponses
appendSlot(prevResponses) == Append(prevResponses, EmptyText)

\* if (nextIdx < questions.length)
moreQuestionsMutant(nextIdx, n) == nextIdx <= n
moreQuestions(nextIdx, n) == nextIdx < n

\* generateFinalFeedback up to its await
generateFinalFeedback ==
  /\ isGeneratingFinalFeedback' = TRUE
  /\ conversationState' = "finalFeedback"
  /\ finalCalls' = finalCalls + 1
  /\ fbPc = "idle"
  /\ fbCall(assessmentText(Len(questions)), interviewSummary(questions, allResponses), "final")

\* body of handleNext
nextStep ==
  /\ currentFeedback' = NoFeedback
  /\ UNCHANGED questions
  /\ IF moreQuestions(currentQuestionIndex + 1, Len(questions))
       THEN /\ currentQuestionIndex' = currentQuestionIndex + 1
            /\ conversationState' = "asking"
            /\ speechEffect(questions[currentQuestionIndex + 2].question, TRUE)
            /\ UNCHANGED <<isGeneratingFinalFeedback, fbVars, finalCalls>>
       ELSE /\ generateFinalFeedback
            /\ UNCHANGED currentQuestionIndex
            /\ speechEffect(currentSpeechText, TRUE)

\* click on Next of the per-question FeedbackPanel
handleNext ==
  /\ feedbackPanelShown
  /\ nextStep
  /\ cycles' = cycles + 1
  /\ UNCHANGED submitted
  /\ UNCHANGED <<userProfile, formVars, avatarVars, ttsVars, micVars, gqVars, userResponse, allResponses, finalFeedback, isLoading,
                 isGeneratingQuestions, interviewComplete, greetingTimers, submitClosure,
                 loads, turns>>

\* ------------------------------------------------------------ voice input
\* SpeechRecognition.stop() on a recognizer in the given state; a recognizer
\* stopped before its start event is "stopping early"
recStopMutant(state) ==
  CASE state = "starting" -> "stopping early"
    [] OTHER -> state
recStop(state) ==
  CASE state = "starting" -> "stopping early"
    [] state = "listening" -> "stopping"
    [] OTHER -> state

\* recognition.stopRecognition() of instance id (0: no instance)
stopRecognition(rec, id) == IF id = 0 THEN rec ELSE [rec EXCEPT ![id] = recStop(@)]

\* the voice input state the handlers read and write
mic == [isListening |-> isListening, speechRecognition |-> speechRecognition,
        recognition |-> recognition, toast |-> toast]
setMic(m) ==
  /\ isListening' = m.isListening
  /\ speechRecognition' = m.speechRecognition
  /\ recognition' = m.recognition
  /\ toast' = m.toast

\* setSpeechRecognition(new) with the cleanup of the effect on
\* [speechRecognition], which stops the instance that was stored before
setSpeechRecognition(m, new) ==
  [m EXCEPT !.speechRecognition = new,
            !.recognition = IF m.speechRecognition # new
                              THEN stopRecognition(@, m.speechRecognition) ELSE @]

StoppedToast == "You can continue typing or start voice input again."
stopListening(m) ==
  setSpeechRecognition([m EXCEPT !.recognition = stopRecognition(@, m.speechRecognition),
                                 !.isListening = FALSE,
                                 !.toast = StoppedToast], 0)

\* click on Submit Answer: handleSubmitResponse up to its await; when
\* questions[currentQuestionIndex] is undefined the call throws inside the try
\* and the catch branch runs handleNext, then finally
handleSubmitResponse ==
  /\ submitEnabled
  /\ turns < MaxTurns
  /\ turns' = turns + 1
  /\ allResponses' = storeResponse(allResponses, currentQuestionIndex, userResponse)
  /\ submitted' = {p \in submitted : p.index # currentQuestionIndex}
                     \cup {[index |-> currentQuestionIndex, response |-> userResponse]}
  /\ IF currentQuestionIndex < Len(questions)
       THEN /\ isLoading' = TRUE
            /\ fbPc = "idle"
            /\ fbCall(questions[currentQuestionIndex + 1].question, userResponse, "submit")
            /\ submitClosure' = [active |-> TRUE, questions |-> questions]
            /\ UNCHANGED <<questions, currentQuestionIndex, userResponse, currentFeedback,
                           isGeneratingFinalFeedback, currentSpeechText, conversationState,
                           speaking, poll, cycles, finalCalls>>
            /\ setMic(IF isListening THEN stopListening(mic) ELSE mic)
       ELSE /\ nextStep
            /\ isLoading' = FALSE
            /\ userResponse' = EmptyText
            /\ UNCHANGED <<submitClosure, cycles>>
            /\ setMic(IF isListening THEN stopListening(mic) ELSE mic)
  /\ UNCHANGED <<speechSupported, permissionPending, created>>
  /\ UNCHANGED <<userProfile, formVars, avatarVars, ttsVars, gqVars, finalFeedback, isGeneratingQuestions,
                 interviewComplete, greetingTimers, loads>>

\* handleSubmitResponse after await getAIFeedback(...), with its finally
submitResolved ==
  /\ fbPc = "done" /\ fbCaller = "submit"
  /\ currentFeedback' = fbResult
  /\ conversationState' = "feedback"
  /\ IF truthy(fbResult.followUpQuestion)
       THEN /\ questions' = appendQuestion(questions,
                                             followUpQuestion(fbResult, submitClosure.questions))
            /\ allResponses' = appendSlot(allResponses)
       ELSE UNCHANGED <<questions, allResponses>>
  /\ UNCHANGED currentQuestionIndex
  /\ speechEffect(feedbackSpeech(fbResult), FALSE)
  /\ isLoading' = FALSE
  /\ userResponse' = EmptyText
  /\ submitClosure' = NoClosure
  /\ fbReturned
  /\ UNCHANGED <<userProfile, formVars, avatarVars, ttsVars, micVars, gqVars, finalFeedback, isGeneratingQuestions,
                 isGeneratingFinalFeedback, interviewComplete, greetingTimers,
                 loads, turns, cycles,
                 submitted, finalCalls>>

\* generateFinalFeedback after await getAIFeedback(...), with its finally
finalFeedbackResolved ==
  /\ fbPc = "done" /\ fbCaller = "final"
  /\ finalFeedback' = fbResult
  /\ isGeneratingFinalFeedback' = FALSE
  /\ UNCHANGED <<questions, currentQuestionIndex, conversationState>>
  /\ speechEffect(finalFeedbackSpeech(fbResult), FALSE)
  /\ fbReturned
  /\ UNCHANGED <<userProfile, formVars, avatarVars, ttsVars, micVars, gqVars, userResponse, allResponses, currentFeedback, isLoading,
                 isGeneratingQuestions, interviewComplete, greetingTimers, submitClosure,
                 loads, turns, cycles,
                 submitted, finalCalls>>

\* onNext of the final FeedbackPanel
finalPanelNext ==
  /\ finalPanelShown
  /\ speaking' = FALSE
  /\ interviewComplete' = TRUE
  /\ UNCHANGED <<userProfile, formVars, avatarVars, ttsVars, micVars, gqVars, fbVars, questions, currentQuestionIndex, userResponse,
                 allResponses, finalFeedback, currentFeedback, isLoading,
                 isGeneratingQuestions, isGeneratingFinalFeedback, currentSpeechText,
                 conversationState, poll, greetingTimers, submitClosure, loads, turns, cycles,
                 submitted, finalCalls>>

\* click on Start a New Interview: handleRestartInterview up to the promise
handleRestartInterview ==
  /\ completeShown
  /\ loads <= MaxRestarts
  /\ userResponse' = EmptyText
  /\ allResponses' = << >>
  /\ finalFeedback' = NoFeedback
  /\ currentQuestionIndex' = 0
  /\ interviewComplete' = FALSE
  /\ isGeneratingFinalFeedback' = FALSE
  /\ conversationState' = "greeting"
  /\ currentFeedback' = NoFeedback
  /\ isGeneratingQuestions' = TRUE
  /\ gqPc = "idle"
  /\ gqCall("restart")
  /\ cycles' = 0
  /\ submitted' = {} /\ finalCalls' = 0
  /\ setMic([setSpeechRecognition([mic EXCEPT !.recognition =
                                       stopRecognition(@, speechRecognition)], 0)
               EXCEPT !.isListening = FALSE])
  /\ UNCHANGED <<speechSupported, permissionPending, created>>
  /\ UNCHANGED <<userProfile, formVars, avatarVars, ttsVars, fbVars, questions, isLoading, currentSpeechText, speaking, poll,
                 greetingTimers, submitClosure, loads, turns>>

\* the .then of handleRestartInterview
restartLoaded ==
  /\ gqPc = "done" /\ gqCaller = "restart"
  /\ questions' = gqResult
  /\ allResponses' = emptyResponses(Len(gqResult))
  /\ isGeneratingQuestions' = FALSE
  /\ UNCHANGED <<currentQuestionIndex, conversationState>>
  /\ speechEffect(greetingText(userProfile, Len(gqResult)), FALSE)
  /\ gqReturned
  /\ loads' = loads + 1
  /\ UNCHANGED <<userProfile, formVars, avatarVars, ttsVars, micVars, fbVars, userResponse, finalFeedback, currentFeedback, isLoading,
                 isGeneratingFinalFeedback, interviewComplete, greetingTimers,
                 submitClosure, turns, cycles,
                 submitted, finalCalls>>

onChange == \E text \in ControllerAnswers : setUserResponse(text)

ControllerProfiles ==
  {p \in Profiles : p.field = "Software Engineering"
                      /\ includes(p.experienceLevel, "Intermediate")}

Init ==
  /\ userProfile \in ControllerProfiles
  /\ gqEnter("init")
  /\ fbIdle
  /\ roomMounted
  /\ ttsUnused
  /\ micUnused
  /\ formUnmounted
  /\ avatarMounted

Next ==
  \/ generateQuestions
  \/ getAIFeedback
  \/ initInterview
  \/ speechEnds
  \/ handleSpeechComplete
  \/ greetingTimerFires
  \/ onChange
  \/ handleSubmitResponse
  \/ submitResolved
  \/ handleNext
  \/ finalFeedbackResolved
  \/ finalPanelNext
  \/ handleRestartInterview
  \/ restartLoaded

Spec == Init /\ [][Next]_vars

\* the speech output adapter called on its own
InitSpeech ==
  /\ userProfile \in ControllerProfiles
  /\ gqIdle /\ fbIdle /\ roomMounted
  /\ ttsLoaded
  /\ micUnused
  /\ formUnmounted
  /\ avatarMounted
  /\ elevenLabsApiKey \in BOOLEAN
  /\ synth \in BOOLEAN
NextSpeech ==
  \/ speakCalled
  \/ stop
  \/ fetchSettled
  \/ playSettled
  \/ playInterrupted
  \/ audioEnded
  \/ onend
  \/ cancelledEnded
SpecSpeech == InitSpeech /\ [][NextSpeech]_vars

\* ------------------------------- the feedback service unreachable, fair run
\* getAIFeedback when no remote attempt succeeds
getAIFeedbackOffline ==
  /\ \/ \E o \in FailingOutcomes : fbAttemptFails(o)
     \/ fbBackoffElapsed
  /\ UNCHANGED <<userProfile, formVars, avatarVars, ttsVars, micVars, gqVars, roomVars>>

typeAnswer == \E text \in ControllerAnswers : ~text.blank /\ setUserResponse(text)

NextOffline ==
  \/ generateQuestions
  \/ getAIFeedbackOffline
  \/ initInterview
  \/ speechEnds
  \/ handleSpeechComplete
  \/ greetingTimerFires
  \/ typeAnswer
  \/ handleSubmitResponse
  \/ submitResolved
  \/ handleNext
  \/ finalFeedbackResolved
  \/ finalPanelNext
  \/ handleRestartInterview
  \/ restartLoaded

\* every promise settles, every timer fires, playback ends, and the user
\* answers every question asked and clicks Next on every feedback
SpecOffline ==
  /\ Init /\ [][NextOffline]_vars
  /\ WF_vars(generateQuestions)
  /\ WF_vars(getAIFeedbackOffline)
  /\ WF_vars(initInterview)
  /\ WF_vars(speechEnds)
  /\ WF_vars(handleSpeechComplete)
  /\ WF_vars(greetingTimerFires)
  /\ WF_vars(submitResolved)
  /\ WF_vars(finalFeedbackResolved)
  /\ WF_vars(restartLoaded)
  /\ WF_vars(typeAnswer /\ userResponse.blank)
  /\ WF_vars(handleSubmitResponse)
  /\ WF_vars(handleNext)

\* ------------------------------------------------ the controller, fair run
\* every promise settles, every timer fires and every playback ends; the
\* user is free to act or not
SpecLive ==
  /\ Init /\ [][Next]_vars
  /\ WF_vars(generateQuestions)
  /\ WF_vars(getAIFeedback)
  /\ WF_vars(initInterview)
  /\ WF_vars(speechEnds)
  /\ WF_vars(handleSpeechComplete)
  /\ WF_vars(greetingTimerFires)
  /\ WF_vars(submitResolved)
  /\ WF_vars(finalFeedbackResolved)
  /\ WF_vars(restartLoaded)

\* ------------------------------------------------- voice input, offline run
\* the Use Voice Input / Stop Recording button is rendered and enabled
micButtonEnabled == answerCardShown /\ speechSupported /\ conversationState = "asking"

NotSupportedToast ==
  "Speech recognition is not supported in your browser. Please use Chrome, Edge, or Safari."
PermissionToast == "Please allow microphone access to use voice input."
ActiveToast == "Speak now. Click the button again to stop recording."

\* SpeechRecognition.start() throws InvalidStateError unless the recognizer is at rest
atRest(state) == state \in {"none", "ended"}

\* click on the voice input button: handleToggleMicrophone up to its await
handleToggleMicrophone ==
  /\ micButtonEnabled
  /\ IF isListening
       THEN /\ setMic(stopListening(mic))
            /\ UNCHANGED permissionPending
       ELSE IF speechRecognition # 0
         THEN /\ IF atRest(recognition[speechRecognition])
                   THEN setMic([mic EXCEPT !.recognition[speechRecognition] = "starting"])
                   ELSE setMic(setSpeechRecognition(mic, 0))
              /\ UNCHANGED permissionPending
         ELSE IF ~speechSupported
           THEN /\ setMic([mic EXCEPT !.toast = NotSupportedToast])
                /\ UNCHANGED permissionPending
           ELSE /\ created + permissionPending < MaxRecognitions
                /\ permissionPending' = permissionPending + 1
                /\ UNCHANGED <<isListening, speechRecognition, recognition, toast>>
  /\ UNCHANGED <<speechSupported, created>>
  /\ UNCHANGED <<userProfile, formVars, avatarVars, gqVars, fbVars, roomVars, ttsVars>>

\* handleToggleMicrophone after await getUserMedia({ audio: true })
permissionDenied(m) == [m EXCEPT !.toast = PermissionToast]
permissionGranted(m, id) ==
  [setSpeechRecognition(m, id) EXCEPT !.recognition[id] = "starting"]
getUserMediaSettles(granted) ==
  /\ permissionPending > 0
  /\ permissionPending' = permissionPending - 1
  /\ IF granted
       THEN /\ created' = created + 1
            /\ setMic(permissionGranted(mic, created + 1))
       ELSE /\ setMic(permissionDenied(mic))
            /\ UNCHANGED created
  /\ UNCHANGED speechSupported
  /\ UNCHANGED <<userProfile, formVars, avatarVars, gqVars, fbVars, roomVars, ttsVars>>
getUserMediaGranted == getUserMediaSettles(TRUE)
getUserMediaDenied == getUserMediaSettles(FALSE)

\* recognition.onstart; whether a recognizer stopped before its start event
\* still delivers it depends on the browser
onstart(id) ==
  /\ recognition[id] \in {"starting", "stopping early"}
  /\ setMic([mic EXCEPT !.isListening = TRUE, !.toast = ActiveToast,
                        !.recognition[id] = IF @ = "starting" THEN "listening"
                                            ELSE "stopping"])
  /\ UNCHANGED <<speechSupported, permissionPending, created>>
  /\ UNCHANGED <<userProfile, formVars, avatarVars, gqVars, fbVars, roomVars, ttsVars>>
recognitionStarted == \E id \in RecognitionIds : onstart(id)

\* recognition.onresult with a transcript that is not blank after trim()
Transcripts == {Txt("answer", 0, 9, {})}
onresult(id, transcript) ==
  /\ recognition[id] \in {"listening", "stopping"}
  /\ transcript # userResponse
  /\ userResponse' = transcript
  /\ UNCHANGED <<userProfile, formVars, avatarVars, gqVars, fbVars, ttsVars, micVars, questions, currentQuestionIndex,
                 allResponses, finalFeedback, currentFeedback, isLoading,
                 isGeneratingQuestions, isGeneratingFinalFeedback, interviewComplete,
                 currentSpeechText, conversationState, speaking, poll, greetingTimers,
                 submitClosure, loads, turns, cycles, submitted, finalCalls>>
recognitionResult == \E id \in RecognitionIds, transcript \in Transcripts : onresult(id, transcript)

\* the error codes of SpeechRecognitionErrorEvent the specification names
RecognitionErrors ==
  {"no-speech", "not-allowed", "network", "audio-capture", "service-not-allowed", "aborted"}
GenericErrorToast == "Voice input encountered an error. Please try again."
errorMessage(error) ==
  CASE error = "not-allowed" ->
         "Microphone access denied. Please allow microphone permissions and try again."
    [] error = "no-speech" -> "No speech detected. Please try speaking again."
    [] OTHER -> GenericErrorToast

\* recognition.onerror
onerror(id, error) ==
  /\ recognition[id] \in {"starting", "listening"}
  /\ setMic(setSpeechRecognition([mic EXCEPT !.recognition[id] = "failing",
                                             !.isListening = FALSE,
                                             !.toast = errorMessage(error)], 0))
  /\ UNCHANGED <<speechSupported, permissionPending, created>>
  /\ UNCHANGED <<userProfile, formVars, avatarVars, gqVars, fbVars, roomVars, ttsVars>>
recognitionError == \E id \in RecognitionIds, error \in RecognitionErrors : onerror(id, error)

\* recognition.onend: after stop(), after an error, or when the browser ends
\* the session on its own
onendRecognition(id) ==
  /\ recognition[id] \in {"listening", "stopping", "stopping early", "failing"}
  /\ setMic(setSpeechRecognition([mic EXCEPT !.recognition[id] = "ended",
                                             !.isListening = FALSE], 0))
  /\ UNCHANGED <<speechSupported, permissionPending, created>>
  /\ UNCHANGED <<userProfile, formVars, avatarVars, gqVars, fbVars, roomVars, ttsVars>>
recognitionEnded == \E id \in RecognitionIds : onendRecognition(id)

NextListen ==
  \/ generateQuestions
  \/ getAIFeedbackOffline
  \/ initInterview
  \/ speechEnds
  \/ handleSpeechComplete
  \/ greetingTimerFires
  \/ handleSubmitResponse
  \/ submitResolved
  \/ handleNext
  \/ finalFeedbackResolved
  \/ finalPanelNext
  \/ handleToggleMicrophone
  \/ getUserMediaGranted
  \/ getUserMediaDenied
  \/ recognitionStarted
  \/ recognitionResult
  \/ recognitionError
  \/ recognitionEnded

\* one interview with the feedback service unreachable and every answer dictated
SpecListen == Init /\ [][NextListen]_vars

\* ------------------------------------------------------- the profile form
FormNames == {"", "Dana"}
FormFields == {"Software Engineering", "Medical"}
FormSubFields == {"", "Cardiology"}
FormRoles == {"", "Backend Engineer"}
FormLevels == {"Intermediate (2-5 years)", "Senior/Leadership"}

\* `${field} - ${medicalSubField}`
medicalField(subField) ==
  CASE subField = "Cardiology" -> "Medical - Cardiology"
    [] OTHER -> "Medical - "

\* Start Interview: disabled={isLoading || !name || !field || !role ||
\* !experienceLevel || (field === 'Medical' && !medicalSubField)}
startEnabledMutant ==
  /\ ~formIsLoading
  /\ name # "" /\ field # "" /\ role # "" /\ experienceLevel # ""
startEnabled ==
  /\ ~formIsLoading
  /\ name # "" /\ field # "" /\ role # "" /\ experienceLevel # ""
  /\ ~(field = "Medical" /\ medicalSubField = "")

formShown == ~interviewStarted
formRest == <<userProfile, avatarVars, gqVars, fbVars, roomVars, ttsVars, micVars>>

setName ==
  /\ formShown
  /\ \E v \in FormNames : v # name /\ name' = v
  /\ UNCHANGED <<field, medicalSubField, role, experienceLevel, formIsLoading, submitTimer,
                 interviewStarted>>
  /\ UNCHANGED formRest
setField ==
  /\ formShown
  /\ \E v \in FormFields : v # field /\ field' = v
  /\ UNCHANGED <<name, medicalSubField, role, experienceLevel, formIsLoading, submitTimer,
                 interviewStarted>>
  /\ UNCHANGED formRest
\* the sub-field input is rendered when field === 'Medical'
setMedicalSubField ==
  /\ formShown /\ field = "Medical"
  /\ \E v \in FormSubFields : v # medicalSubField /\ medicalSubField' = v
  /\ UNCHANGED <<name, field, role, experienceLevel, formIsLoading, submitTimer,
                 interviewStarted>>
  /\ UNCHANGED formRest
setRole ==
  /\ formShown
  /\ \E v \in FormRoles : v # role /\ role' = v
  /\ UNCHANGED <<name, field, medicalSubField, experienceLevel, formIsLoading, submitTimer,
                 interviewStarted>>
  /\ UNCHANGED formRest
setExperienceLevel ==
  /\ formShown
  /\ \E v \in FormLevels : v # experienceLevel /\ experienceLevel' = v
  /\ UNCHANGED <<name, field, medicalSubField, role, formIsLoading, submitTimer,
                 interviewStarted>>
  /\ UNCHANGED formRest

\* handleSubmit of the form: setIsLoading(true) and setTimeout(..., 1000),
\* whose callback closes over the values of this render
handleSubmit ==
  /\ formShown /\ startEnabled
  /\ formIsLoading' = TRUE
  /\ submitTimer' = [active |-> TRUE,
                     profile |-> [name |-> name,
                                  field |-> IF field = "Medical"
                                              THEN medicalField(medicalSubField) ELSE field,
                                  role |-> role,
                                  experienceLevel |-> experienceLevel]]
  /\ UNCHANGED <<name, field, medicalSubField, role, experienceLevel, interviewStarted>>
  /\ UNCHANGED formRest

\* the timeout: onSubmit(profile), which is handleStartInterview of Index, and
\* setIsLoading(false)
handleStartInterview ==
  /\ submitTimer.active
  /\ userProfile' = submitTimer.profile
  /\ interviewStarted' = TRUE
  /\ formIsLoading' = FALSE
  /\ submitTimer' = NoTimer
  /\ UNCHANGED <<name, field, medicalSubField, role, experienceLevel>>
  /\ UNCHANGED <<avatarVars, gqVars, fbVars, roomVars, ttsVars, micVars>>

InitProfile ==
  /\ userProfile = NullProfile
  /\ formMounted
  /\ avatarMounted
  /\ gqIdle /\ fbIdle /\ roomMounted
  /\ ttsUnused /\ micUnused
NextProfile ==
  \/ setName
  \/ setField
  \/ setMedicalSubField
  \/ setRole
  \/ setExperienceLevel
  \/ handleSubmit
  \/ handleStartInterview
SpecProfile == InitProfile /\ [][NextProfile]_vars

\* ============================================================== Avatar
\* The effect of Avatar on [isSpeaking, text], as it runs in the commit of a
\* render of InterviewRoom with the props isSpeaking={isSpeaking()} and
\* text={currentSpeechText}. When a dependency has changed the cleanup of the
\* previous run calls tts.stop() and clears isCurrentlySpeaking, then the body
\* runs; isCurrentlySpeaking.current is therefore false whenever the body
\* reads it, and the body speaks a text that is non-empty, differs from
\* lastTextRef.current and comes with isSpeaking true.
avatarRuns(isSpeakingProp, text) ==
  [isSpeaking |-> isSpeakingProp, text |-> text] # avatarDeps
avatarSpeaks(isSpeakingProp, text) ==
  /\ avatarRuns(isSpeakingProp, text)
  /\ ~text.blank /\ text # lastTextRef /\ isSpeakingProp
avatarEffect(isSpeakingProp, text, playing) ==
  /\ avatarDeps' = [isSpeaking |-> isSpeakingProp, text |-> text]
  /\ lastTextRef' = IF avatarSpeaks(isSpeakingProp, text) THEN text ELSE lastTextRef
  /\ avatarCalls' =
       avatarCalls
         \cup (IF avatarRuns(isSpeakingProp, text) THEN {"stop"} ELSE {})
         \cup (IF avatarRuns(isSpeakingProp, text) /\ playing THEN {"stop of a playback"} ELSE {})
         \cup (IF avatarSpeaks(isSpeakingProp, text) THEN {"speak"} ELSE {})
\* isSpeaking() after the effects of the children, before those of the room
playingAfterAvatar(isSpeakingProp, text, playing) ==
  IF avatarRuns(isSpeakingProp, text) THEN avatarSpeaks(isSpeakingProp, text) ELSE playing

\* texts the room hands to its speech effect
ViewTexts ==
  {greetingText(userProfile, 6), introQuestions(userProfile)[1].question,
   feedbackSpeech(fallbackFeedback(EmptyText))}

viewRest ==
  <<userProfile, formVars, ttsVars, micVars, gqVars, fbVars, questions, currentQuestionIndex,
    allResponses, finalFeedback, currentFeedback, isLoading, isGeneratingQuestions,
    isGeneratingFinalFeedback, interviewComplete, conversationState, greetingTimers,
    submitClosure, loads, turns, cycles, submitted, finalCalls>>

\* a state update that sets a new speech text: render, effect of the Avatar,
\* then the speech effect of the room (stop(), speak(text), a new interval)
setCurrentSpeechText ==
  /\ UNCHANGED viewRest
  /\ UNCHANGED userResponse
  /\ \E text \in ViewTexts :
        /\ text # currentSpeechText
        /\ avatarEffect(speaking, text, speaking)
        /\ speechEffect(text, FALSE)

\* a state update that leaves the speech text alone (here: typing): render and
\* effect of the Avatar; the speech effect of the room does not run
viewOnChange ==
  /\ \E text \in ControllerAnswers : text # userResponse /\ userResponse' = text
  /\ avatarEffect(speaking, currentSpeechText, speaking)
  /\ speaking' = playingAfterAvatar(speaking, currentSpeechText, speaking)
  /\ UNCHANGED <<currentSpeechText, poll>>
  /\ UNCHANGED viewRest

\* the playback ends: no state update, no render
viewSpeechEnds ==
  /\ speaking
  /\ speaking' = FALSE
  /\ UNCHANGED <<currentSpeechText, poll, userResponse, avatarVars>>
  /\ UNCHANGED viewRest

\* a tick of checkSpeechComplete that finds isSpeaking() false:
\* clearInterval, setCurrentSpeechText(''), render, effect of the Avatar, and
\* the speech effect of the room, which returns on the empty text
checkSpeechComplete ==
  /\ poll.active /\ ~speaking
  /\ UNCHANGED viewRest
  /\ UNCHANGED userResponse
  /\ avatarEffect(FALSE, EmptyText, FALSE)
  /\ speechEffect(EmptyText, FALSE)

InitView ==
  /\ userProfile \in ControllerProfiles
  /\ gqIdle /\ fbIdle
  /\ roomMounted
  /\ ttsUnused /\ micUnused /\ formUnmounted
  /\ avatarMounted
NextView ==
  \/ setCurrentSpeechText
  \/ viewOnChange
  \/ viewSpeechEnds
  \/ checkSpeechComplete
SpecView == InitView /\ [][NextView]_vars

\* ================================================================ claims
Dana == [name |-> "Dana", field |-> "Software Engineering", role |-> "Backend Engineer",
         experienceLevel |-> "Intermediate (2-5 years)"]

Range(f) == { f[i] : i \in DOMAIN f }
IsPrefix(s, t) == Len(s) <= Len(t) /\ \A i \in 1..Len(s) : s[i] = t[i]

\* C1 (as claimed): once a question set is loaded, a user who answers every
\* question and clicks Next on every feedback reaches Complete, having gone
\* through as many question/feedback cycles as there are questions, follow-ups
\* included.
C1_ReachesComplete ==
  <>(conversationState = "complete" /\ cycles = Len(questions))

\* C2 (as claimed): after the first load, allResponses and questions have the
\* same length in every state.
C2_SameLength == loads > 0 => Len(allResponses) = Len(questions)

\* C3 (as claimed): after the first load and outside Complete,
\* currentQuestionIndex is a valid index of questions.
C3_IndexInRange ==
  (loads > 0 /\ conversationState # "complete") => currentQuestionIndex < Len(questions)

\* C4 (as claimed): every step leaves questions unchanged or appends at its end.
C4_OnlyGrows == [][IsPrefix(questions, questions')]_vars

\* C4 (amended): every step other than the load of a restarted interview's
\* fresh question set leaves questions unchanged or appends at its end; that
\* load replaces the sequence by the fetched one.
C4_GrowsWithinInterview ==
  [][IF gqPc = "done" /\ gqCaller = "restart" /\ gqPc' = "idle"
       THEN questions' = gqResult
       ELSE IsPrefix(questions, questions')]_vars

C4_Witness ==
  /\ conversationState = "feedback" /\ loads = 2
  /\ Len(questions) = 3
  /\ questions[3].category = "Follow-up" /\ questions[1].category # "Follow-up"

FallbackTable ==
  Range(introQuestions(userProfile))
    \cup Range(softwareQuestions(userProfile))
    \cup Range(marketingQuestions(userProfile))
    \cup Range(genericQuestions(userProfile))
    \cup Range(beginnerQuestions(userProfile))
    \cup Range(seniorQuestions(userProfile))

\* C5: when every remote attempt of generateQuestions has failed, the call
\* resolves to a non-empty sequence whose elements all come from the fallback
\* table, whatever the profile.
C5_FallbackNonEmpty ==
  (gqPc = "done" /\ gqCalls > 0 /\ gqAttempts = gqCalls) =>
     /\ Len(gqResult) > 0
     /\ \A i \in 1..Len(gqResult) : gqResult[i] \in FallbackTable
     /\ \A i \in 1..Len(gqResult) : gqResult[i].id = i

C5_Witness ==
  /\ gqPc = "done" /\ gqCalls = 3 /\ gqAttempts = 3
  /\ userProfile.field = "Data Science"
  /\ userProfile.experienceLevel = "Advanced (5+ years)"

\* C6 (as claimed): generateQuestions always resolves to a non-empty sequence,
\* for every outcome of the remote call, an empty array literal included.
C6_AlwaysNonEmpty == gqPc = "done" => Len(gqResult) > 0

\* C7: generateQuestions makes at most 3 remote attempts; a successful attempt
\* is the last one and its array is returned at once; a failed attempt is
\* followed by a pause and a further attempt while fewer than 3 have failed;
\* the fallback table is returned only after the third failure.
C7_RetryBudget ==
  /\ gqCalls <= 3
  /\ gqPc = "calling" => (gqAttempts = gqCalls /\ gqCalls < 3)
  /\ gqPc = "sleeping" => (gqAttempts = gqCalls /\ gqCalls \in 1..2)
  /\ (gqPc = "done" /\ gqFrom = "remote") => gqCalls = gqAttempts + 1
  /\ (gqPc = "done" /\ gqFrom = "fallback") => (gqAttempts = 3 /\ gqCalls = 3)
  /\ gqPc = "done" => gqFrom \in {"remote", "fallback"}

C7_Witness == gqPc = "done" /\ gqFrom = "remote" /\ gqAttempts = 2 /\ gqCalls = 3

\* C8: getAIFeedback makes at most 2 remote attempts, returns the first parsed
\* object without a further call, and after the second failure returns the
\* heuristic feedback of the answer; it has no state in which it has thrown.
C8_FeedbackRetry ==
  /\ fbCalls <= 2
  /\ fbPc \in {"idle", "calling", "sleeping", "done"}
  /\ fbPc = "calling" => (fbAttempts = fbCalls /\ fbCalls < 2)
  /\ fbPc = "sleeping" => (fbAttempts = fbCalls /\ fbCalls = 1)
  /\ (fbPc = "done" /\ fbFrom = "remote") =>
        (fbCalls = fbAttempts + 1 /\ fbResult \in RemoteFeedbacks)
  /\ (fbPc = "done" /\ fbFrom = "fallback") =>
        (fbAttempts = 2 /\ fbCalls = 2 /\ fbResult = fallbackFeedback(fbResponse))
  /\ fbPc = "done" => fbFrom \in {"remote", "fallback"}

C8_Witness == fbPc = "done" /\ fbFrom = "fallback" /\ fbCalls = 2 /\ ~fbResponse.blank

C10_PositiveIff ==
  (fbPc = "done" /\ fbFrom = "fallback") =>
     (fbResult.positive <=>
        /\ fbResponse.spaces + 1 > 30
        /\ \/ fbResponse.example \/ fbResponse.instance \/ fbResponse.situation
           \/ fbResponse.percent \/ fbResponse.years \/ fbResponse.projects)

C10_Witness ==
  /\ fbPc = "done" /\ fbFrom = "fallback" /\ fbResult.positive
  /\ fbResponse.spaces = 30 /\ fbResponse.projects /\ ~fbResponse.example

\* C11: with the remote feedback service unreachable, an answer of 10 words
\* without figures or examples gets positive = false and the short-response
\* delivery message; every non-positive fallback feedback carries the
\* short-response message exactly when the word count is below 20 and the
\* structure message otherwise.
C11_ShortResponseMessage ==
  (fbPc = "done" /\ fbFrom = "fallback" /\ ~fbResult.positive) =>
    /\ (fbResult.deliveryFeedback = "quite brief") <=> (wordCount(fbResponse) < 20)
    /\ wordCount(fbResponse) >= 20
         => fbResult.deliveryFeedback = "clear beginning, middle, and conclusion"
    /\ (wordCount(fbResponse) = 10 /\ ~hasSpecificExamples(fbResponse)
          /\ ~usesConcreteFigures(fbResponse))
         => fbResult.deliveryFeedback = "quite brief"
C11_TenWordsNegative ==
  (fbPc = "done" /\ fbFrom = "fallback" /\ wordCount(fbResponse) = 10
     /\ ~hasSpecificExamples(fbResponse) /\ ~usesConcreteFigures(fbResponse))
    => ~fbResult.positive
C11_ShortResponse == C11_ShortResponseMessage /\ C11_TenWordsNegative
C11_Witness ==
  /\ fbPc = "done" /\ fbFrom = "fallback" /\ fbAttempts = maxAttemptsFeedback
  /\ wordCount(fbResponse) = 10 /\ ~hasSpecificExamples(fbResponse)
  /\ ~usesConcreteFigures(fbResponse) /\ ~fbResponse.blank
  /\ ~fbResult.positive /\ fbResult.deliveryFeedback = "quite brief"

C13_AcknowledgingFirst ==
  [][/\ (turns' = turns + 1 /\ conversationState = "asking"
            /\ currentQuestionIndex < Len(questions))
          => conversationState' = "acknowledging"
     /\ (conversationState' = "feedback" /\ conversationState # "feedback")
          => (conversationState = "acknowledging" /\ fbPc = "done" /\ ~speaking)]_vars

\* C14: a click on Next in Feedback moves the controller to Transition when
\* more questions remain and to FinalFeedback when the current question is
\* the last; currentQuestionIndex advances by exactly 1, and only when the
\* transition speech has ended, after which the state is Asking.
C14_TransitionFirst ==
  [][/\ (cycles' = cycles + 1 /\ conversationState = "feedback")
          => IF currentQuestionIndex + 1 < Len(questions)
               THEN conversationState' = "transition"
                      /\ currentQuestionIndex' = currentQuestionIndex
               ELSE conversationState' = "finalFeedback"
     /\ currentQuestionIndex' > currentQuestionIndex
          => /\ currentQuestionIndex' = currentQuestionIndex + 1
             /\ conversationState = "transition" /\ ~speaking
             /\ conversationState' = "asking"]_vars

\* the answers submitted in this interview, each at its question's index
submittedAnswers(n) ==
  [i \in 1..n |-> IF \E p \in submitted : p.index = i - 1
                    THEN (CHOOSE p \in submitted : p.index = i - 1).response
                    ELSE EmptyText]

\* C15: a click on Next on the last question's feedback moves the controller
\* to FinalFeedback and starts the one aggregate feedback call of the
\* interview, over every question paired with the answer submitted at its
\* index; Complete is entered only from FinalFeedback, after that feedback has
\* been received and its speech has ended.
C15_LastNext ==
  (cycles' = cycles + 1 /\ ~(currentQuestionIndex + 1 < Len(questions)))
    => /\ conversationState' = "finalFeedback"
       /\ fbPc' = "calling" /\ fbCaller' = "final" /\ finalCalls' = 1
       /\ \A p \in submitted : p.index < Len(questions)
       /\ allResponses = submittedAnswers(Len(questions))
       /\ fbQuestion' = assessmentText(Len(questions))
       /\ fbResponse' = interviewSummary(questions, submittedAnswers(Len(questions)))
C15_CompleteLast ==
  (conversationState' = "complete" /\ conversationState # "complete")
    => /\ conversationState = "finalFeedback"
       /\ finalCalls = 1 /\ fbCaller # "final"
       /\ finalFeedback # NoFeedback
       /\ currentSpeechText.tag = "overall feedback"
       /\ ~speaking
C15_FinalFeedback == [][C15_LastNext /\ C15_CompleteLast /\ finalCalls' <= 1]_vars

\* a playback of call id is active: its audio element plays, or the
\* synthesizer speaks its utterance
Playing(id) ==
  \/ audio[id] = "playing"
  \/ synth /\ synthQueue # << >> /\ Head(synthQueue) = id

\* C16: a new speak() supersedes any prior playback: at most one playback is
\* active at any time and it belongs to the most recent speak(); the audio of
\* an earlier call never plays once a later speak() has been invoked.
C16_LatestOnly ==
  /\ \A id \in SpeakIds : Playing(id) => id = lastSpeak
  /\ Cardinality({id \in SpeakIds : audio[id] = "playing"})
       + (IF synth /\ synthQueue # << >> THEN 1 ELSE 0) <= 1

\* C17: after stop() has returned and until the next speak(), nothing of an
\* earlier speak() is playing or starts playing and isSpeaking() is false,
\* also when the voice request was still in flight at the stop().
C17_StopHalts ==
  stopsInRow > 0 => /\ \A id \in SpeakIds : ~Playing(id)
                    /\ ~isSpeaking

\* C18: stop() is idempotent: it raises no error (currentAudio is null or an
\* audio element), isSpeaking() is false after it, and a second stop() leaves
\* the adapter as the first one left it.
C18_StopIdempotent ==
  /\ currentAudio # 0 => (currentAudio \in SpeakIds /\ audio[currentAudio] # "none")
  /\ ~isSpeakingIn(stopped(adapter))
  /\ stopped(stopped(adapter)) = stopped(adapter)
  /\ stopsInRow > 0 /\ ~isSpeaking /\ currentAudio = 0 => stopped(adapter) = adapter
C18_Witness ==
  /\ stopsInRow = 2 /\ lastSpeak > 0 /\ ~isSpeaking /\ currentAudio = 0
  /\ \E id \in SpeakIds : audio[id] = "paused"

\* C19: isSpeaking() is true whenever a backend is active, that is whenever
\* an audio element plays or the synthesizer speaks.
C19_SpeakingWhileActive == \A id \in SpeakIds : Playing(id) => isSpeaking

\* the remote voice of call id was tried and failed
remoteFailed(id) == requests[id] > 0 /\ audio[id] \in {"none", "failed", "aborted"}

\* C20: a speak() makes at most one remote voice request and only with a
\* stored key; when the request fails or no key is stored, the call hands
\* its own text to the synthesizer (if the browser has one) and resolves; no
\* call ends with an error.
C20_OneRequestThenFallback ==
  \A id \in SpeakIds :
    /\ requests[id] <= 1
    /\ requests[id] = 1 => hasApiKey
    /\ speakPc[id] # "rejected"
    /\ handed[id] \in {0, id}
    /\ (speakPc[id] = "resolved" /\ synth /\ (~hasApiKey \/ remoteFailed(id)))
         => handed[id] = id
    /\ (speakPc[id] \in {"fetch", "play"} \/ audio[id] \in {"playing", "paused", "ended"})
         => handed[id] = 0
C20_Witness ==
  \E id \in SpeakIds :
    /\ requests[id] = 1 /\ speakPc[id] = "resolved" /\ audio[id] = "none"
    /\ handed[id] = id /\ synthQueue # << >> /\ Head(synthQueue) = id

\* a getAIFeedback call of the controller has not returned yet
feedbackPending == fbPc \in {"calling", "sleeping"}

\* C21: at most one feedback request is in flight: while a call started by a
\* submission or by the final feedback is pending, the Submit button is
\* disabled and no control that starts a feedback request is available.
C21_OneInFlight ==
  feedbackPending =>
    /\ ~submitEnabled
    /\ ~(feedbackPanelShown /\ ~moreQuestions(currentQuestionIndex + 1, Len(questions)))

\* a recognizer is capturing audio
capturing == \E id \in RecognitionIds : recognition[id] = "listening"

\* C22: voice capture and speech playback are mutually exclusive: in no state
\* is voice input listening while speech output is playing, and a step that
\* submits a response leaves voice input not listening and no recognizer
\* capturing.
C22_NeverListeningWhileSpeaking == ~((isListening \/ capturing) /\ speaking)
C22_SubmitStopsCapture == turns' # turns => ~isListening' /\ ~capturing'
C22_CaptureExcludesPlayback ==
  [][C22_NeverListeningWhileSpeaking /\ C22_SubmitStopsCapture]_vars

\* C29: each error of the recognizer is reported with the message of its
\* category, distinct from the message of every other category, an "aborted"
\* error shows no notification, and after the error voice input is not
\* listening.
C29_ErrorsCategorized ==
  [][\A id \in RecognitionIds, error \in RecognitionErrors :
       onerror(id, error) =>
         /\ ~isListening'
         /\ IF error = "aborted"
              THEN toast' = toast
              ELSE \A other \in RecognitionErrors \ {error, "aborted"} :
                     toast' # errorMessage(other)]_vars

\* a recognizer is started in this step
recognizerStarted ==
  \E id \in RecognitionIds : recognition[id] # "starting" /\ recognition'[id] = "starting"
\* stopListening runs in this step
stopListeningRuns == isListening /\ (handleToggleMicrophone \/ handleSubmitResponse)

\* C30: a recognizer is started only by a call whose request for microphone
\* access was granted; when the request is denied the permission message is
\* shown, no recognizer is created or started, and voice input stays as it
\* was, not listening when it was not listening; stopping ends capture, leaves
\* voice input not listening, and stopping again changes nothing.
C30_StartAfterPermission == recognizerStarted => permissionPending' = permissionPending - 1
C30_DenialStartsNothing ==
  getUserMediaDenied =>
    /\ toast' = PermissionToast
    /\ created' = created /\ recognition' = recognition
    /\ speechRecognition' = speechRecognition /\ isListening' = isListening
C30_StopEndsCapture ==
  stopListeningRuns =>
    /\ ~isListening' /\ speechRecognition' = 0 /\ ~capturing'
    /\ \A id \in RecognitionIds : recognition'[id] # "starting"
    /\ stopListening(stopListening(mic)) = stopListening(mic)
    /\ ~stopListening(stopListening(mic)).isListening
C30_StartAndStop ==
  [][C30_StartAfterPermission /\ C30_DenialStartsNothing /\ C30_StopEndsCapture]_vars
\* a request was denied after an earlier capture had been stopped
C30_Witness ==
  /\ toast = PermissionToast /\ ~isListening /\ speechRecognition = 0
  /\ \E id \in RecognitionIds : recognition[id] = "stopping"

\* C23: a restart reinitializes the controller and fetches a new question
\* set: when the restarted interview begins with its loaded questions, the
\* index is 0, every response slot is empty, there is no per-question and no
\* final feedback, the completion screen is off, the conversation state is
\* Greeting, the questions are the set just generated and the text spoken is
\* the greeting of that set.
C23_RestartReinitializes ==
  [][restartLoaded =>
       /\ currentQuestionIndex' = 0
       /\ allResponses' = emptyResponses(Len(questions'))
       /\ currentFeedback' = NoFeedback /\ finalFeedback' = NoFeedback
       /\ ~interviewComplete'
       /\ conversationState' = "greeting"
       /\ questions' = gqResult
       /\ currentSpeechText' = greetingText(userProfile, Len(questions'))]_vars

\* the last question of the sequence is a follow-up
followUpLast == Len(questions) > 0 /\ questions[Len(questions)].category = "Follow-up"

\* C24: when the feedback on an answer carries a follow-up question, the step
\* that stores the feedback appends exactly one question, the follow-up, at the
\* end of the sequence and exactly one empty response slot at the end of the
\* responses; the total of the progress indicator is the grown length, and
\* while the sequence ends with a follow-up the number shown with a question
\* does not exceed the total.
C24_AppendsOne ==
  fbPc = "done" /\ fbCaller = "submit" /\ fbPc' # "done" /\ truthy(fbResult.followUpQuestion) =>
    /\ Len(questions') = Len(questions) + 1
    /\ SubSeq(questions', 1, Len(questions)) = questions
    /\ questions'[Len(questions')].question = followUpText(fbResult.followUpQuestion)
    /\ questions'[Len(questions')].category = "Follow-up"
    /\ allResponses' = allResponses \o <<EmptyText>>
    /\ currentFeedback' = fbResult
    /\ totalQuestions' = Len(questions) + 1
C24_FollowUpAppended ==
  [][/\ C24_AppendsOne
     /\ (answerCardShown' /\ followUpLast') => questionNumber' <= totalQuestions']_vars
\* the follow-up question is the one being asked
C24_Witness ==
  /\ answerCardShown /\ followUpLast /\ conversationState = "asking"
  /\ questionNumber = totalQuestions
  /\ Len(allResponses) = Len(questions) /\ allResponses[Len(allResponses)] = EmptyText

\* the feedback received last in this interview: the final one once it is
\* there, otherwise the one on the last answer (null when there is none)
mostRecentFeedback == IF finalFeedback # NoFeedback THEN finalFeedback ELSE currentFeedback

\* C25: in every state the mood shown is positive when the most recent
\* feedback, per-question or final, is positive, and neutral otherwise.
C25_MoodFollowsFeedback ==
  mood = IF mostRecentFeedback.positive THEN "positive" ELSE "neutral"

\* C26: an empty or whitespace-only answer is never submitted: while the
\* answer in the text area is blank, no step counts a submission, issues a
\* feedback request for an answer or stores the answer in a response slot.
C26_BlankBlocked ==
  [][userResponse.blank =>
       /\ turns' = turns /\ submitted' \subseteq submitted
       /\ (fbCaller' = "submit" => fbCaller = "submit")
       /\ (userResponse # EmptyText =>
             \A i \in 1..Len(allResponses') : allResponses'[i] # userResponse)]_vars
\* a whitespace-only answer is in the enabled text area
C26_Witness ==
  /\ userResponse.blank /\ userResponse # EmptyText
  /\ textareaEnabled /\ ~isLoading /\ currentQuestionIndex < Len(questions)

\* C27: a submitted response is frozen: within one interview a step that
\* stores an answer stores it in a slot that was not submitted before, and a
\* slot that was submitted keeps the submitted value in the next state.
C27_SubmittedOnce ==
  turns' # turns => \A p \in submitted : p.index # currentQuestionIndex
C27_KeepsValue ==
  \A p \in submitted :
    p \in submitted' =>
      /\ p.index + 1 <= Len(allResponses')
      /\ allResponses'[p.index + 1] = p.response
C27_ResponseFrozen == [][C27_SubmittedOnce /\ C27_KeepsValue]_vars

\* the form hands a profile over in this step
handsOver == ~interviewStarted /\ interviewStarted'

\* C28: the form hands a profile to the controller only with name, field, role
\* and experience level non-empty and, when the field is Medical, with a
\* non-empty sub-field; the profile handed over is the one of the values
\* submitted, and once handed over it never changes.
C28_CompleteProfile ==
  handsOver =>
    /\ userProfile'.name # "" /\ userProfile'.role # ""
    /\ userProfile'.experienceLevel # ""
    /\ userProfile'.field \notin {"", "Medical", medicalField("")}
    /\ userProfile' = submitTimer.profile
    /\ userProfile' # NullProfile
C28_CompleteWhenSubmitted ==
  (~formIsLoading /\ formIsLoading') =>
    /\ name # "" /\ field # "" /\ role # "" /\ experienceLevel # ""
    /\ (field = "Medical" => medicalSubField # "")
C28_HandOver ==
  [][/\ C28_CompleteProfile
     /\ C28_CompleteWhenSubmitted
     /\ (interviewStarted => userProfile' = userProfile /\ interviewStarted')]_vars
\* a Medical profile has been handed over
C28_Witness == interviewStarted /\ userProfile.field = medicalField("Cardiology")

\* ------------------------------------------------- service notifications
\* catch of callGeminiAPI: the toast of an attempt that failed in the request
\* itself (abort after 15 s, network error, error status, no content); an
\* attempt whose text carries no JSON fails after callGeminiAPI has returned
callGeminiAPIToast(error) ==
  IF error = "timeout"
    THEN "Gemini API request timed out. Using fallback questions instead."
    ELSE IF error = "error"
           THEN "Error connecting to Gemini AI. Using fallback questions instead."
           ELSE NoToast
\* outer catch of generateQuestions and of getAIFeedback
QuestionsFallbackToast == "Using pre-defined interview questions"
FeedbackFallbackToast == "Using AI feedback unavailable. Using fallback evaluation."
\* notifications a finished call has emitted for certain: the one of its last
\* failed attempt and the one of its fallback
gqToasts ==
  ({callGeminiAPIToast(gqLastError)} \ {NoToast})
    \cup (IF gqFrom = "fallback" THEN {QuestionsFallbackToast} ELSE {})
fbToasts ==
  ({callGeminiAPIToast(fbLastError)} \ {NoToast})
    \cup (IF fbFrom = "fallback" THEN {FeedbackFallbackToast} ELSE {})
AnnounceFallback ==
  {callGeminiAPIToast(e) : e \in ApiErrors} \cup {QuestionsFallbackToast, FeedbackFallbackToast}

\* C31: a finished call of generateQuestions or getAIFeedback has emitted a
\* notification announcing fallback content exactly when its result is
\* fallback content: a result of the remote service, also one that came after
\* a failed and retried attempt, comes with no such notification.
C31_NotifiedIffFallback ==
  /\ gqPc = "done" => (gqFrom = "fallback" <=> gqToasts \cap AnnounceFallback # {})
  /\ fbPc = "done" => (fbFrom = "fallback" <=> fbToasts \cap AnnounceFallback # {})

\* C32: the presentation layer is a pure view: no render of the avatar starts
\* or stops speech, and the avatar never invokes speak() or stop() of the
\* speech output adapter.
C32_PureView == avatarCalls = {}

\* the greeting is being played; the text being handed over is a question
greetingPlaying == speaking /\ currentSpeechText.tag = "greeting"
questionText(text) ==
  text.tag \notin {"", "greeting", "feedback", "overall feedback", "closing"}

\* C33: the controller leaves Greeting for Asking only when the greeting is
\* no longer playing, and then at question 0; no step hands a question to the
\* speech effect while the greeting is playing; and the answer input is
\* enabled only in Asking.
C33_LeavesGreeting ==
  (conversationState = "greeting" /\ conversationState' = "asking") =>
    ~greetingPlaying /\ currentQuestionIndex' = 0
C33_QuestionAfterGreeting ==
  (greetingPlaying /\ currentSpeechText' # currentSpeechText) =>
    ~questionText(currentSpeechText')
C33_AskingAfterGreeting ==
  [][/\ C33_LeavesGreeting
     /\ C33_QuestionAfterGreeting
     /\ (textareaEnabled' => conversationState' = "asking")]_vars

\* C34: the speech-completion handler fires a transition only for the
\* conversation state that requested the text whose end it observes, and at
\* most once for that text; a greeting timer fires only while the controller
\* is still in the Greeting that set it, with the questions of that greeting
\* and no newer text handed to the speech effect.
C34_PollOfCurrentState ==
  handleSpeechComplete =>
    /\ poll.conversationState \in {"greeting", "finalFeedback", "complete"}
         => poll.conversationState = conversationState
    /\ poll' # poll
C34_TimerOfCurrentState ==
  greetingTimerFires =>
    /\ conversationState = "greeting" /\ currentSpeechText.blank
    /\ \E timer \in greetingTimers \ greetingTimers' : timer.questions = questions
C34_NoStaleCompletion == [][C34_PollOfCurrentState /\ C34_TimerOfCurrentState]_vars

\* questions after the current one
unanswered == Len(questions) - currentQuestionIndex - 1
\* the step in which the feedback on an answer arrives
feedbackArrives == fbPc = "done" /\ fbCaller = "submit" /\ fbPc' # "done"
\* a step that neither restarts the interview nor loads a question set
withinInterview == loads' = loads /\ (isGeneratingQuestions' => isGeneratingQuestions)

\* C35: with the remote feedback service unreachable, the feedback on every
\* answer is a fallback that carries a follow-up question; its arrival grows
\* the questions by exactly one, and within an interview the number of
\* unanswered questions goes down only by the one click on Next that follows
\* a feedback, so it never decreases from one feedback to the next.
C35_CarriesFollowUp ==
  (fbPc = "done" /\ fbCaller = "submit") =>
    fbFrom = "fallback" /\ truthy(fbResult.followUpQuestion)
C35_GrowsByOne ==
  feedbackArrives =>
    /\ Len(questions') = Len(questions) + 1
    /\ unanswered' = unanswered + 1
    /\ conversationState' = "feedback"
C35_DownOnlyByNext ==
  (withinInterview /\ unanswered' < unanswered) =>
    /\ unanswered' = unanswered - 1
    /\ conversationState = "feedback" /\ conversationState' = "asking"
C35_NeverFewerUnanswered ==
  [][C35_CarriesFollowUp /\ C35_GrowsByOne /\ C35_DownOnlyByNext]_vars
\* the second fallback feedback of an interview has arrived: as many questions
\* are unanswered as when the first one arrived
C35_Witness ==
  /\ conversationState = "feedback" /\ truthy(currentFeedback.followUpQuestion)
  /\ turns = 2 /\ cycles = 1 /\ currentQuestionIndex = 1
  /\ Len(questions) >= 2 /\ questions[Len(questions)].category = "Follow-up"
  /\ questions[Len(questions) - 1].category = "Follow-up"

\* no speech of the controller is pending: nothing is played and no poll waits
noPendingSpeech == ~speaking /\ ~poll.active
\* the state the catch of generateFinalFeedback would leave
C36_Stuck == conversationState = "complete" /\ noPendingSpeech /\ ~interviewComplete

restartedGreeting ==
  /\ conversationState = "greeting" /\ ~interviewComplete
  /\ \/ isGeneratingQuestions /\ loads >= 1
     \/ loads >= 2

\* C37: after a restart no pending event of the previous interview changes
\* the state of the new one: from the restart until its first question is
\* asked the controller stays in Greeting at index 0 with the completion
\* screen off, while and after the fresh questions are loaded, and the state
\* it leaves Greeting for is Asking.
C37_RestartIsolated ==
  [][restartedGreeting =>
       /\ ~interviewComplete'
       /\ currentQuestionIndex' = 0
       /\ conversationState' \in {"greeting", "asking"}
       /\ isGeneratingQuestions' => conversationState' = "greeting"]_vars

\* C38: the completion screen flag agrees with the state machine:
\* interviewComplete is true only while the conversation state is Complete.
C38_FlagOnlyInComplete == interviewComplete => conversationState = "complete"

\* C39: each question starts with an empty answer draft: a step that enters
\* Asking, for the first or for the next question, leaves userResponse empty.
C39_EmptyDraft ==
  [][(conversationState # "asking" /\ conversationState' = "asking")
       => userResponse' = EmptyText]_vars

====
